---- MODULE Spec2Model ----
(***************************************************************************)
(* Edit-history and multi-image session state machine of the photo editor  *)
(* (the App component, src/unnamed/part_004, with the panels and filmstrip *)
(* that trigger its handlers).                                             *)
(*                                                                         *)
(* Conventions.  Indices (currentImageIndex, historyIndex, the batch loop  *)
(* counter) are 0-based as in the source; At(s, i) reads the element of a  *)
(* TLA+ sequence at a 0-based index.  A File object is a pair <<r, v>>     *)
(* (its identity): the record r it was uploaded or generated for and a     *)
(* version number v no other live file of that record has.  JavaScript     *)
(* null is Null for strings and NoHotspot / NoMessage for structured       *)
(* values.  One action is one run-to-completion   *)
(* step of the event loop: a user event with the handler it triggers up to *)
(* the handler's first await, or the continuation of a handler after an    *)
(* awaited promise settles, together with the effects React runs in the    *)
(* same render.                                                            *)
(***************************************************************************)
EXTENDS Integers, Sequences, FiniteSets, TLC

\* Bounds of the model.
MaxImages == 2      \* files in one upload
MaxEdits == 3       \* edits dispatched in one run (a batch counts one per record)
MaxZooms == 9       \* clicks on the zoom buttons in one run
MaxWheels == 2      \* wheel steps in one run
MaxDrags == 1       \* pans started in one run
MaxRetries == 3     \* the largest `retries` withRetry is called with

VARIABLES
    imageList,              \* part_004:57   ImageState[]
    currentImageIndex,      \* part_004:58
    prompt,                 \* part_004:61
    isLoading,              \* part_004:62
    globalLoadingMessage,   \* part_004:63
    error,                  \* part_004:64   the global error
    editHotspot,            \* part_004:67
    displayHotspot,         \* part_004:68
    op,                     \* the closure of the async handler in flight
    pending,                \* external calls issued and not yet settled
    edits,                  \* edits dispatched so far (bounds the run)
    last,                   \* the last event: which control or continuation ran
    activeTab,              \* part_004:69
    interactionMode,        \* part_004:70
    isComparing,            \* part_004:76
    isSliderDragging,       \* part_004:78
    sliderPosition,         \* part_004:77   a rational
    scale,                  \* part_004:80   a rational <<numerator, denominator>>
    translate,              \* part_004:81   <<x, y>>, each a rational
    isPanning,              \* part_004:90   isPanning.current
    panStart,               \* part_004:91   panStart.current
    pointer,                \* e.clientX - rect.left, e.clientY - rect.top of the last wheel or pan event
    click,                  \* the rects and the position of the last mouse-down on the hotspot branch
    down,                   \* the position and the translate of the mouse-down that started the last pan
    zooms,                  \* clicks on the zoom buttons so far (bounds the run)
    wheels,                 \* wheel steps so far (bounds the run)
    drags,                  \* pans started so far (bounds the run)
    retry                   \* part_003:16-41   one run of withRetry: its locals and what it did

\* The viewport and tool state.
viewVars == <<activeTab, interactionMode, isComparing, isSliderDragging, sliderPosition, scale,
              translate, isPanning, panStart, pointer, click, down, zooms, wheels, drags>>

vars == <<imageList, currentImageIndex, prompt, isLoading, globalLoadingMessage,
          error, editHotspot, displayHotspot, op, pending, edits, last, viewVars, retry>>

Null == "null"
NoHotspot == <<>>
NoMessage == <<>>
Undefined == 0

\* The one message the external service fails with in this model.
ServiceError == "EditError"
\* The one non-blank prompt a user types in this model.
SomePrompt == "p"
\* The hotspot a click selects in this model.
SomeHotspot == <<1, 1>>
SomeDisplayHotspot == <<<<1, 1>>, <<1, 1>>>>

At(s, i) == s[i + 1]
InRange(s, i) == i >= 0 /\ i < Len(s)
Indices(s) == 0 .. (Len(s) - 1)
Range(s) == {s[k] : k \in DOMAIN s}


(***************************************************************************)
(* Records and the pure operations on them.                                *)
(***************************************************************************)

\* A record takes its id and its name from the uploaded file.
FileId(file) == file[1]
FileName(file) == file[1]

\* A record whose id does not tell the files of one upload apart.
createRecordSameId(file) ==
    [id |-> 1, name |-> FileName(file), history |-> <<file>>,
     historyIndex |-> 0, isProcessing |-> FALSE, error |-> Null]

createRecord(file) ==
    [id |-> FileId(file), name |-> FileName(file), history |-> <<file>>,
     historyIndex |-> 0, isProcessing |-> FALSE, error |-> Null]

\* Slice without the truncation: the whole history is kept.
SliceKeepingRedo(history, end) == history

\* targetImage.history.slice(0, targetImage.historyIndex + 1)
Slice(history, end) == SubSeq(history, 1, IF end <= Len(history) THEN end ELSE Len(history))

\* The cursor set to newHistory.length.
CursorPastEnd(newHistory) == Len(newHistory)

\* The new cursor after a commit: newHistory.length - 1.
CursorAfterCommit(newHistory) == Len(newHistory) - 1

\* A commit that gives the record another name.
appendVersionRenamed(targetImage, newImageFile) ==
    LET newHistory == Append(Slice(targetImage.history, targetImage.historyIndex + 1),
                             newImageFile)
    IN  [targetImage EXCEPT !.history = newHistory,
                            !.historyIndex = CursorAfterCommit(newHistory),
                            !.name = targetImage.name + 1]

\* The record that addImageToHistory stores at the target index.
appendVersion(targetImage, newImageFile) ==
    LET newHistory == Append(Slice(targetImage.history, targetImage.historyIndex + 1),
                             newImageFile)
    IN  [targetImage EXCEPT !.history = newHistory,
                            !.historyIndex = CursorAfterCommit(newHistory)]

\* setImageList(prevList => ...) of addImageToHistory: only newList[index] is replaced,
\* and nothing happens when there is no record at index.
addImageToHistory(prevList, newImageFile, index) ==
    IF InRange(prevList, index)
    THEN [prevList EXCEPT ![index + 1] = appendVersion(At(prevList, index), newImageFile)]
    ELSE prevList

\* A batch commit that appends after the redo branch instead of replacing it.
processImageCommitKeepingRedo(prevList, newImageFile, imageIndex) ==
    IF InRange(prevList, imageIndex)
    THEN [prevList EXCEPT ![imageIndex + 1] =
             [At(prevList, imageIndex)
                 EXCEPT !.history = Append(@, newImageFile),
                        !.historyIndex = Len(At(prevList, imageIndex).history),
                        !.isProcessing = FALSE]]
    ELSE prevList

\* A batch commit without isProcessing: false.
processImageCommitStillProcessing(prevList, newImageFile, imageIndex) ==
    IF InRange(prevList, imageIndex)
    THEN [prevList EXCEPT ![imageIndex + 1] =
             appendVersion(At(prevList, imageIndex), newImageFile)]
    ELSE prevList

\* The commit of processImage: the same truncate-and-append, and isProcessing: false.
processImageCommit(prevList, newImageFile, imageIndex) ==
    IF InRange(prevList, imageIndex)
    THEN [prevList EXCEPT ![imageIndex + 1] =
             [appendVersion(At(prevList, imageIndex), newImageFile)
                 EXCEPT !.isProcessing = FALSE]]
    ELSE prevList

\* The mark without the index test: every record is marked.
processImageMarkAll(prev, imageIndex) ==
    [k \in DOMAIN prev |-> [prev[k] EXCEPT !.isProcessing = TRUE, !.error = Null]]

\* prev.map(...) at the start of processImage.
processImageMark(prev, imageIndex) ==
    [k \in DOMAIN prev |->
        IF k - 1 = imageIndex
        THEN [prev[k] EXCEPT !.isProcessing = TRUE, !.error = Null]
        ELSE prev[k]]

\* The catch block without isProcessing: false.
processImageFailStillProcessing(prev, imageIndex, errorMessage) ==
    [k \in DOMAIN prev |->
        IF k - 1 = imageIndex THEN [prev[k] EXCEPT !.error = errorMessage] ELSE prev[k]]

\* prev.map(...) in the catch block of processImage.
processImageFail(prev, imageIndex, errorMessage) ==
    [k \in DOMAIN prev |->
        IF k - 1 = imageIndex
        THEN [prev[k] EXCEPT !.error = errorMessage, !.isProcessing = FALSE]
        ELSE prev[k]]

\* An undo that also drops the version it steps back from.
undoListDropping(prev, index) ==
    [k \in DOMAIN prev |->
        IF k - 1 = index
        THEN [prev[k] EXCEPT !.historyIndex = @ - 1,
                             !.history = SubSeq(@, 1, prev[k].historyIndex)]
        ELSE prev[k]]

\* A reset that drops every version but the original.
resetListDropping(prev, index) ==
    [k \in DOMAIN prev |->
        IF k - 1 = index
        THEN [prev[k] EXCEPT !.historyIndex = 0, !.history = <<prev[k].history[1]>>]
        ELSE prev[k]]

\* prev.map(...) of handleUndo, handleRedo and handleReset.
undoList(prev, index) ==
    [k \in DOMAIN prev |->
        IF k - 1 = index THEN [prev[k] EXCEPT !.historyIndex = @ - 1] ELSE prev[k]]

\* A redo that jumps to the newest version.
redoListToNewest(prev, index) ==
    [k \in DOMAIN prev |->
        IF k - 1 = index THEN [prev[k] EXCEPT !.historyIndex = Len(prev[k].history) - 1]
        ELSE prev[k]]

redoList(prev, index) ==
    [k \in DOMAIN prev |->
        IF k - 1 = index THEN [prev[k] EXCEPT !.historyIndex = @ + 1] ELSE prev[k]]

resetList(prev, index) ==
    [k \in DOMAIN prev |->
        IF k - 1 = index THEN [prev[k] EXCEPT !.historyIndex = 0] ELSE prev[k]]

(***************************************************************************)
(* Derived state (part_004:96-98, 211-212).                                *)
(***************************************************************************)
HasCurrent == InRange(imageList, currentImageIndex)
currentImageState == At(imageList, currentImageIndex)
currentImage == At(currentImageState.history, currentImageState.historyIndex)

\* canUndo with >= for >.
canUndoAtFirst(rec) == rec.historyIndex >= 0

canUndoRec(rec) == rec.historyIndex > 0
canRedoRec(rec) == rec.historyIndex < Len(rec.history) - 1

canUndo == HasCurrent /\ canUndoRec(currentImageState)
canRedo == HasCurrent /\ canRedoRec(currentImageState)

\* currentImageState?.id, the dependency of the UI-reset effect.
CurrentId(list, idx) == IF InRange(list, idx) THEN At(list, idx).id ELSE Undefined

\* renderContent: the editor is on screen when there is no global error and the
\* list is not empty; the start screen when there is no error and the list is empty.
EditorRendered == error = Null /\ Len(imageList) > 0
StartScreenRendered == error = Null /\ Len(imageList) = 0
FilmstripRendered == Len(imageList) > 1

(***************************************************************************)
(* File identities, closures and events.                                   *)
(***************************************************************************)

HistoryFiles(list) == UNION {Range(list[k].history) : k \in DOMAIN list}

\* The File objects still referenced by the state; every other one is garbage.
UsedFiles == HistoryFiles(imageList) \cup HistoryFiles(op.snapshot)
             \cup {c.file : c \in pending}

\* A File object that did not exist before, new File(...) in dataURLtoFile, made
\* for the record at index: it takes the least version no live file of that
\* record has.
FreshFile(list, index) ==
    LET r == IF InRange(list, index) THEN At(list, index).id ELSE Undefined
        taken == {f[2] : f \in {g \in UsedFiles : g[1] = r}}
        v == CHOOSE n \in 0 .. Cardinality(taken) :
                 n \notin taken /\ \A m \in 0 .. (n - 1) : m \in taken
    IN  <<r, v>>

\* The files the user picks in one upload: the k-th is the original of record k.
PickedFiles(n) == [k \in 1 .. n |-> <<k, 0>>]

IdleOp == [pc |-> "idle", kind |-> "none", index |-> 0, snapshot |-> <<>>,
           i |-> 0, failed |-> {}, calls |-> 0]

SingleKinds == {"generate", "filter", "adjustment", "autoEnhance", "compose",
                "resize", "expand", "upscale"}
BatchKinds == {"applyToAll_filter", "applyToAll_adjustment", "retouchAll"}

\* The event record: the handler or continuation that ran last, the record index
\* it was about, and the exception that left it ("none": every handler of the
\* component catches what it awaits and none has a throw of its own).
\* A click on a disabled control delivers no event, and a handler whose guard is
\* false returns without a state update: neither is a step.
Event(name, index) == [name |-> name, index |-> index, raised |-> "none"]

(***************************************************************************)
(* Numbers of the viewport.  scale and the coordinates of translate are    *)
(* JavaScript numbers; they are modelled as exact rationals <<n, d>> with  *)
(* d > 0, in lowest terms.                                                 *)
(***************************************************************************)
RECURSIVE Gcd(_, _)
Gcd(a, b) == IF b = 0 THEN a ELSE Gcd(b, a % b)

Abs(a) == IF a < 0 THEN -a ELSE a

Rat(n, d) == LET g == Gcd(Abs(n), d) IN <<n \div g, d \div g>>

Whole(n) == <<n, 1>>

RAdd(a, b) ==
    LET g == Gcd(a[2], b[2])
    IN  Rat(a[1] * (b[2] \div g) + b[1] * (a[2] \div g), (a[2] \div g) * b[2])

RNeg(a) == <<-a[1], a[2]>>

RSub(a, b) == RAdd(a, RNeg(b))

RMul(a, b) ==
    LET g1 == Gcd(Abs(a[1]), b[2])
        g2 == Gcd(Abs(b[1]), a[2])
    IN  Rat((a[1] \div g1) * (b[1] \div g2), (a[2] \div g2) * (b[2] \div g1))

\* a / b for b > 0.
RDiv(a, b) == RMul(a, <<b[2], b[1]>>)

\* a < b, by whole parts and then by the reciprocals of the fractional parts,
\* so that no product is formed.
RECURSIVE RLess(_, _)
RLess(a, b) ==
    LET qa == a[1] \div a[2]
        qb == b[1] \div b[2]
        ra == a[1] % a[2]
        rb == b[1] % b[2]
    IN  IF qa # qb THEN qa < qb
        ELSE IF rb = 0 THEN FALSE
        ELSE IF ra = 0 THEN TRUE
        ELSE RLess(<<b[2], rb>>, <<a[2], ra>>)

RLeq(a, b) == ~RLess(b, a)

\* Math.min, Math.max
RMin(a, b) == IF RLess(b, a) THEN b ELSE a
RMax(a, b) == IF RLess(a, b) THEN b ELSE a

\* A point with whole-number coordinates.
Point(x, y) == <<Whole(x), Whole(y)>>

\* useState(1), useState({ x: 0, y: 0 })
InitialScale == Whole(1)
InitialTranslate == Point(0, 0)

\* zoomFactor of handleZoom (1.2) and of handleWheel (1.1); the clamp bounds 0.2 and 5.
ButtonZoomFactor == <<6, 5>>
WheelZoomFactor == <<11, 10>>
MinScale == <<1, 5>>
MaxScale == <<5, 1>>

\* viewport.getBoundingClientRect(): width and height of the viewport in this model.
ViewportSize == <<4, 2>>
\* rect.width / 2, rect.height / 2
ViewportCenter == <<Rat(ViewportSize[1], 2), Rat(ViewportSize[2], 2)>>
\* The pointer positions (e.clientX - rect.left, e.clientY - rect.top) of this model.
PointerPoints == {Point(1, 0), Point(3, 2)}
\* The pointer over the centre of the viewport.
CentrePoints == {Point(ViewportSize[1] \div 2, ViewportSize[2] \div 2)}

Tabs == {"retouch", "adjust", "crop", "resize"}
SelectTabs == {"retouch", "compose"}
NoZoomTabs == {"crop", "resize"}

\* The new scale stored as computed, without the clamp.
clampScaleOmitted(newScale) == newScale

\* Math.max(0.2, Math.min(newScale, 5))
clampScale(newScale) == RMax(MinScale, RMin(newScale, MaxScale))

\* pivot - (pivot - translate) * (clampedScale / oldScale), on both axes.
zoomTranslate(pivot, t, ratio) ==
    <<RSub(pivot[1], RMul(RSub(pivot[1], t[1]), ratio)),
      RSub(pivot[2], RMul(RSub(pivot[2], t[2]), ratio))>>

\* The body shared by handleZoom and handleWheel.
zoomAt(oldScale, t, factor, direction, pivot) ==
    LET newScale == IF direction = "in" THEN RMul(oldScale, factor)
                    ELSE RDiv(oldScale, factor)
        clampedScale == clampScale(newScale)
    IN  [scale |-> clampedScale,
         translate |-> zoomTranslate(pivot, t, RDiv(clampedScale, oldScale))]

\* A mouse-down on the image: natural = <<naturalWidth, naturalHeight>> of the
\* image, rendered = <<width, height>> of the rect of the img element, which fills
\* the image container, and at = the position of the pointer from the left and
\* top of that rect.
Geometry(natural, rendered, at) == [natural |-> natural, rendered |-> rendered, at |-> at]

\* No mouse-down yet.
NoClick == Geometry(<<0, 0>>, <<0, 0>>, <<0, 0>>)
NoDown == [at |-> Point(0, 0), translate |-> InitialTranslate]

\* useState(50)
InitialSliderPosition == Whole(50)

\* resetView: setScale(1); setTranslate({ x: 0, y: 0 }).
resetView ==
    /\ scale' = InitialScale
    /\ translate' = InitialTranslate

\* The tool state no session handler touches.
ToolFrame == UNCHANGED <<activeTab, interactionMode, isSliderDragging, sliderPosition,
                         isPanning, panStart, pointer, click, down, zooms, wheels, drags,
                         retry>>

\* The effect on the id without resetView().
IdEffectViewKept(newList, newIndex) ==
    /\ IF CurrentId(newList, newIndex) # CurrentId(imageList, currentImageIndex)
       THEN isComparing' = FALSE
       ELSE UNCHANGED isComparing
    /\ UNCHANGED <<scale, translate>>
    /\ ToolFrame

\* The viewport part of the effect on [currentImageState?.id]: setIsComparing(false)
\* and resetView when the id of the active record differs after the render.
IdEffectView(newList, newIndex) ==
    /\ IF CurrentId(newList, newIndex) # CurrentId(imageList, currentImageIndex)
       THEN isComparing' = FALSE /\ resetView
       ELSE UNCHANGED <<isComparing, scale, translate>>
    /\ ToolFrame

\* The viewport part of resetAllState: setIsComparing(false); resetView().
ResetAllView ==
    /\ isComparing' = FALSE
    /\ resetView
    /\ ToolFrame

(***************************************************************************)
(* withRetry (part_003:16-41).                                             *)
(***************************************************************************)

\* retries = 3, initialDelay = 1000: the defaults every caller uses.
DefaultRetries == 3
DefaultInitialDelay == 1000

\* The arguments a run is started with.
RetriesArgs == 0 .. MaxRetries
InitialDelayArgs == {DefaultInitialDelay, 250}

\* The messages fn rejects with, and the values it resolves to.
BlockedMessage == "Request was blocked. Reason: SAFETY"
ErrorMessages == {BlockedMessage, "503 Service Unavailable", "Network error"}
ResultValues == {"response"}

\* error.message.includes("blocked")
BlockedNever(e) == FALSE

Blocked(e) == e.message = BlockedMessage

\* new Error("All retry attempts failed."), thrown when there was no attempt.
AllFailedError == [message |-> "All retry attempts failed.", attempt |-> 0]

\* Before the call: log lists what the run did, in order: <<"call", attempt>>,
\* <<"ok", value>>, <<"err", error>>, <<"wait", ms>>.
IdleRetry == [pc |-> "idle", retries |-> 0, initialDelay |-> 0, i |-> 0, delay |-> 0,
              lastError |-> AllFailedError, outcome |-> AllFailedError, log |-> <<>>]

\* The loop test with <= for <: one attempt more.
MoreAttemptsInclusive(i, retries) == i <= retries

\* i < retries
MoreAttempts(i, retries) == i < retries

RetryFrame == UNCHANGED <<imageList, currentImageIndex, prompt, isLoading, globalLoadingMessage,
                          error, editHotspot, displayHotspot, op, pending, edits, last, viewVars>>

\* The loop test at index i, then either fn() is called or the final throw.
LoopHead(r, i) ==
    IF MoreAttempts(i, r.retries)
    THEN [r EXCEPT !.pc = "call", !.i = i, !.log = Append(@, <<"call", i + 1>>)]
    ELSE [r EXCEPT !.pc = "thrown", !.i = i, !.outcome = r.lastError]

\* withRetry(fn, retries, initialDelay) up to the first await.
withRetryCall ==
    /\ retry.pc = "idle"
    /\ \E retries \in RetriesArgs, initialDelay \in InitialDelayArgs :
          retry' = LoopHead([retry EXCEPT !.retries = retries,
                                          !.initialDelay = initialDelay,
                                          !.delay = initialDelay], 0)
    /\ RetryFrame

\* return await fn(): fn resolved.
fnResolves ==
    /\ retry.pc = "call"
    /\ \E v \in ResultValues :
          retry' = [retry EXCEPT !.pc = "returned",
                                 !.outcome = [value |-> v, attempt |-> retry.i + 1],
                                 !.log = Append(@, <<"ok", [value |-> v, attempt |-> retry.i + 1]>>)]
    /\ RetryFrame

\* The catch block: fn rejected.  A blocked request is rethrown; otherwise the
\* timer is set for delay ms.
fnRejects ==
    /\ retry.pc = "call"
    /\ \E m \in ErrorMessages :
          LET e == [message |-> m, attempt |-> retry.i + 1]
          IN  retry' = IF Blocked(e)
                       THEN [retry EXCEPT !.pc = "thrown", !.lastError = e, !.outcome = e,
                                          !.log = Append(@, <<"err", e>>)]
                       ELSE [retry EXCEPT !.pc = "wait", !.lastError = e,
                                          !.log = Append(Append(@, <<"err", e>>),
                                                         <<"wait", retry.delay>>)]
    /\ RetryFrame

\* The timer fired: delay *= 2, i++, the loop test.
waitElapsed ==
    /\ retry.pc = "wait"
    /\ retry' = LoopHead([retry EXCEPT !.delay = 2 * @], retry.i + 1)
    /\ RetryFrame

\* The effect on [currentImageState?.id] (part_004:105-112): when the id of the
\* active record differs after the render, the hotspot is cleared; otherwise it
\* keeps the value hs the handler left.
AfterIdEffect(newList, newIndex, hs) ==
    IF CurrentId(newList, newIndex) # CurrentId(imageList, currentImageIndex)
    THEN NoHotspot ELSE hs

Init ==
    /\ imageList = <<>>
    /\ currentImageIndex = 0
    /\ prompt = ""
    /\ isLoading = FALSE
    /\ globalLoadingMessage = NoMessage
    /\ error = Null
    /\ editHotspot = NoHotspot
    /\ displayHotspot = NoHotspot
    /\ op = IdleOp
    /\ pending = {}
    /\ edits = 0
    /\ last = Event("init", 0)
    /\ activeTab = "retouch"
    /\ interactionMode = "select"
    /\ isComparing = FALSE
    /\ isSliderDragging = FALSE
    /\ sliderPosition = InitialSliderPosition
    /\ scale = InitialScale
    /\ translate = InitialTranslate
    /\ isPanning = FALSE
    /\ panStart = Point(0, 0)
    /\ pointer = Point(0, 0)
    /\ click = NoClick
    /\ down = NoDown
    /\ zooms = 0
    /\ wheels = 0
    /\ drags = 0
    /\ retry = IdleRetry

(***************************************************************************)
(* Uploads, Upload New, selection.                                         *)
(***************************************************************************)

\* resetAllState followed by setImageList(newImages), in one render.
Upload(name, n) ==
    /\ StartScreenRendered
    /\ LET files == PickedFiles(n)
           newImages == [k \in 1 .. n |-> createRecord(files[k])]
       IN  /\ imageList' = newImages
           /\ editHotspot' = AfterIdEffect(newImages, 0, NoHotspot)
           /\ displayHotspot' = AfterIdEffect(newImages, 0, NoHotspot)
    /\ currentImageIndex' = 0
    /\ error' = Null
    /\ prompt' = ""
    /\ globalLoadingMessage' = NoMessage
    /\ last' = Event(name, 0)
    /\ ResetAllView
    /\ UNCHANGED <<isLoading, op, pending, edits>>

handleSingleImageUpload == Upload("loadSingle", 1)

handleMultipleImageUpload == \E n \in 1 .. MaxImages : Upload("loadMultiple", n)

UploadNewDisabled == isLoading

\* resetAllState without setPrompt('').
resetAllStateKeepingPrompt ==
    /\ imageList' = <<>>
    /\ currentImageIndex' = 0
    /\ error' = Null
    /\ editHotspot' = NoHotspot
    /\ displayHotspot' = NoHotspot
    /\ globalLoadingMessage' = NoMessage
    /\ last' = Event("uploadNew", currentImageIndex)
    /\ ResetAllView
    /\ UNCHANGED <<prompt, isLoading, op, pending, edits>>

resetAllState ==
    /\ imageList' = <<>>
    /\ currentImageIndex' = 0
    /\ error' = Null
    /\ prompt' = ""
    /\ editHotspot' = NoHotspot
    /\ displayHotspot' = NoHotspot
    /\ globalLoadingMessage' = NoMessage
    /\ last' = Event("uploadNew", currentImageIndex)
    /\ ResetAllView
    /\ UNCHANGED <<isLoading, op, pending, edits>>

ClickUploadNew ==
    /\ EditorRendered
    /\ ~UploadNewDisabled
    /\ resetAllState

\* setCurrentImageIndex, then the id effect.
SelectIndex(name, index) ==
    /\ currentImageIndex' = index
    /\ editHotspot' = AfterIdEffect(imageList, index, editHotspot)
    /\ displayHotspot' = AfterIdEffect(imageList, index, displayHotspot)
    /\ last' = Event(name, index)
    /\ IdEffectView(imageList, index)
    /\ UNCHANGED <<imageList, prompt, isLoading, globalLoadingMessage, error, op, pending,
                   edits>>

\* Filmstrip: one thumbnail button per record, onClick={() => onSelect(index)}.
FilmstripSelect ==
    /\ FilmstripRendered
    /\ \E index \in Indices(imageList) : SelectIndex("select", index)

\* The arrow keys without the wrap-around.
ArrowTargetNoWrap(key, i, length) == IF key = "ArrowRight" THEN i + 1 ELSE i - 1

\* The arrow keys stopping at the ends of the list.
ArrowTargetStopping(key, i, length) ==
    IF key = "ArrowRight"
    THEN (IF i + 1 < length THEN i + 1 ELSE i)
    ELSE (IF i > 0 THEN i - 1 ELSE i)

ArrowTarget(key, i, length) ==
    IF key = "ArrowRight" THEN (i + 1) % length ELSE (i - 1 + length) % length

\* handleKeyDown of the keyboard navigation effect.
KeyArrow ==
    /\ Len(imageList) > 1
    /\ \E key \in {"ArrowRight", "ArrowLeft"} :
          SelectIndex(key, ArrowTarget(key, currentImageIndex, Len(imageList)))

(***************************************************************************)
(* Undo, redo, reset-to-original (part_004:589-615, buttons 1013-1050).    *)
(***************************************************************************)

\* The undo button without isLoading in disabled=.
UndoDisabledIgnoringLoading == ~canUndo

UndoDisabled == ~canUndo \/ isLoading
RedoDisabled == ~canRedo \/ isLoading
ResetDisabled == ~canUndo \/ isLoading

\* A handler that only replaces the list (and possibly clears the global error).
ListOnly(name, newList, newError) ==
    /\ imageList' = newList
    /\ error' = newError
    /\ editHotspot' = AfterIdEffect(newList, currentImageIndex, editHotspot)
    /\ displayHotspot' = AfterIdEffect(newList, currentImageIndex, displayHotspot)
    /\ last' = Event(name, currentImageIndex)
    /\ IdEffectView(newList, currentImageIndex)
    /\ UNCHANGED <<currentImageIndex, prompt, isLoading, globalLoadingMessage, op, pending,
                   edits>>

handleUndo ==
    /\ canUndo
    /\ ListOnly("undo", undoList(imageList, currentImageIndex), error)

handleRedo ==
    /\ canRedo
    /\ ListOnly("redo", redoList(imageList, currentImageIndex), error)

handleReset ==
    /\ HasCurrent /\ Len(currentImageState.history) > 0
    /\ ListOnly("reset", resetList(imageList, currentImageIndex), Null)

ClickUndo ==
    /\ EditorRendered
    /\ ~UndoDisabled
    /\ handleUndo

ClickRedo ==
    /\ EditorRendered
    /\ ~RedoDisabled
    /\ handleRedo

ClickReset ==
    /\ EditorRendered
    /\ ~ResetDisabled
    /\ handleReset

(***************************************************************************)
(* Prompt, hotspot, error dismissal.                                       *)
(***************************************************************************)

\* The prompt input, disabled={isLoading}.
TypePrompt ==
    /\ EditorRendered
    /\ ~isLoading
    /\ \E p \in {"", SomePrompt} :
          /\ p # prompt
          /\ prompt' = p
    /\ last' = Event("prompt", currentImageIndex)
    /\ UNCHANGED <<viewVars, retry>>
    /\ UNCHANGED <<imageList, currentImageIndex, isLoading, globalLoadingMessage,
                   error, editHotspot, displayHotspot, op, pending, edits>>

\* handleMouseDown in select mode on the visible image: setEditHotspot.
ClickHotspot ==
    /\ EditorRendered
    /\ ~isComparing
    /\ interactionMode = "select" /\ activeTab \in SelectTabs
    /\ editHotspot' = SomeHotspot
    /\ displayHotspot' = SomeDisplayHotspot
    /\ last' = Event("hotspot", currentImageIndex)
    /\ UNCHANGED <<viewVars, retry>>
    /\ UNCHANGED <<imageList, currentImageIndex, prompt, isLoading,
                   globalLoadingMessage, error, op, pending, edits>>

\* "Try Again" on the error screen: setError(null).
ClickTryAgain ==
    /\ error # Null
    /\ error' = Null
    /\ last' = Event("tryAgain", currentImageIndex)
    /\ UNCHANGED <<viewVars, retry>>
    /\ UNCHANGED <<imageList, currentImageIndex, prompt, isLoading,
                   globalLoadingMessage, editHotspot, displayHotspot, op, pending, edits>>

(***************************************************************************)
(* Single-image edits on the active record (part_004:354-587).             *)
(***************************************************************************)

\* The bound of the run, as a guard on dispatch.
CapOK(n) == edits + n <= MaxEdits

\* disabled=... of the triggering controls.  The panels' own inputs (a chosen
\* preset, a complement image, new dimensions) are taken as filled in.
GenerateDisabled == isLoading \/ prompt = "" \/ editHotspot = NoHotspot
AutoEnhanceDisabled == isLoading
AdjustmentDisabled == isLoading
ComposeDisabled == isLoading
ResizeDisabled == isLoading
\* FilterPanel and CropPanel receive isLoading; their buttons are taken to be
\* disabled by it like those of the other panels.
FilterDisabled == isLoading
CropDisabled == isLoading

SingleDisabled(kind) ==
    CASE kind = "generate" -> GenerateDisabled
      [] kind = "filter" -> FilterDisabled
      [] kind = "adjustment" -> AdjustmentDisabled
      [] kind = "autoEnhance" -> AutoEnhanceDisabled
      [] kind = "compose" -> ComposeDisabled
      [] OTHER -> ResizeDisabled

\* setError(`Failed to ... ${errorMessage}`): with one service message the text is
\* determined by the handler.
FailText(kind) ==
    CASE kind = "generate" -> "Failed to generate the image."
      [] kind = "filter" -> "Failed to apply the filter."
      [] kind = "adjustment" -> "Failed to apply the adjustment."
      [] kind = "autoEnhance" -> "Failed to auto-enhance the image."
      [] kind = "compose" -> "Failed to compose the images."
      [] kind = "resize" -> "Failed to resize image."
      [] kind = "expand" -> "Failed to expand the image."
      [] OTHER -> "Failed to upscale the image."

\* A handler that returns after setError alone.
ErrorOnly(name, text) ==
    /\ error' = text
    /\ last' = Event(name, currentImageIndex)
    /\ UNCHANGED <<viewVars, retry>>
    /\ UNCHANGED <<imageList, currentImageIndex, prompt, isLoading,
                   globalLoadingMessage, editHotspot, displayHotspot, op, pending, edits>>

\* The closure of a single-image handler: currentImageIndex and currentImage of
\* the render in which the control was clicked.
SingleClosure(kind) == [IdleOp EXCEPT !.pc = "call", !.kind = kind,
                                      !.index = currentImageIndex]

\* A dispatch without setIsLoading(true).
SingleDispatchNotLoading(kind) ==
    /\ CapOK(1)
    /\ edits' = edits + 1
    /\ error' = Null
    /\ op' = SingleClosure(kind)
    /\ pending' = pending \cup {[index |-> currentImageIndex, file |-> currentImage]}
    /\ last' = Event(kind, currentImageIndex)
    /\ UNCHANGED <<viewVars, retry>>
    /\ UNCHANGED <<imageList, currentImageIndex, prompt, isLoading, globalLoadingMessage,
                   editHotspot, displayHotspot>>

\* setIsLoading(true); setError(null); the external call with currentImage.
SingleDispatch(kind) ==
    /\ CapOK(1)
    /\ edits' = edits + 1
    /\ isLoading' = TRUE
    /\ error' = Null
    /\ op' = SingleClosure(kind)
    /\ pending' = pending \cup {[index |-> currentImageIndex, file |-> currentImage]}
    /\ last' = Event(kind, currentImageIndex)
    /\ UNCHANGED <<viewVars, retry>>
    /\ UNCHANGED <<imageList, currentImageIndex, prompt, globalLoadingMessage, editHotspot, displayHotspot>>

SingleHandler(kind) ==
    /\ HasCurrent
    /\ IF kind = "generate" /\ prompt = ""
       THEN ErrorOnly(kind, "Please enter a description for your edit.")
       ELSE IF kind = "generate" /\ editHotspot = NoHotspot
       THEN ErrorOnly(kind, "Please click on the image to select an area to edit.")
       ELSE SingleDispatch(kind)

ClickSingleEdit ==
    /\ EditorRendered
    /\ \E kind \in SingleKinds :
          /\ ~SingleDisabled(kind)
          /\ SingleHandler(kind)

\* The commit reading the index of the active record when the call settles.
SingleCommitToActive(prevList, newImageFile, closure) ==
    addImageToHistory(prevList, newImageFile, currentImageIndex)

\* addImageToHistory(newImageFile, currentImageIndex) in the closure.
SingleCommit(prevList, newImageFile, closure) ==
    addImageToHistory(prevList, newImageFile, closure.index)

\* The awaited call resolved: commit, the handler's own clean-up, finally.
SingleEditResolve ==
    /\ op.pc = "call" /\ op.kind \in SingleKinds
    /\ \E c \in pending :
          /\ pending' = pending \ {c}
          /\ LET newList == SingleCommit(imageList, FreshFile(imageList, op.index), op)
                 hs == IF op.kind \in {"generate", "compose"} THEN NoHotspot
                       ELSE editHotspot
                 dhs == IF op.kind \in {"generate", "compose"} THEN NoHotspot
                        ELSE displayHotspot
             IN  /\ imageList' = newList
                 /\ editHotspot' = AfterIdEffect(newList, currentImageIndex, hs)
                 /\ displayHotspot' = AfterIdEffect(newList, currentImageIndex, dhs)
                 /\ IdEffectView(newList, currentImageIndex)
    /\ prompt' = IF op.kind = "generate" THEN "" ELSE prompt
    /\ isLoading' = FALSE
    /\ op' = IdleOp
    /\ last' = Event("singleResolve", op.index)
    /\ UNCHANGED <<currentImageIndex, globalLoadingMessage, error, edits>>

\* A rejection that is not caught: only the finally block runs.
SingleEditRejectUncaught ==
    /\ op.pc = "call" /\ op.kind \in SingleKinds
    /\ \E c \in pending : pending' = pending \ {c}
    /\ isLoading' = FALSE
    /\ op' = IdleOp
    /\ last' = [Event("singleReject", op.index) EXCEPT !.raised = ServiceError]
    /\ UNCHANGED <<viewVars, retry>>
    /\ UNCHANGED <<imageList, currentImageIndex, prompt, globalLoadingMessage, editHotspot, displayHotspot,
                   error, edits>>

\* The awaited call rejected (or its data URL did not parse): catch, finally.
SingleEditReject ==
    /\ op.pc = "call" /\ op.kind \in SingleKinds
    /\ \E c \in pending : pending' = pending \ {c}
    /\ error' = FailText(op.kind)
    /\ isLoading' = FALSE
    /\ op' = IdleOp
    /\ last' = Event("singleReject", op.index)
    /\ UNCHANGED <<viewVars, retry>>
    /\ UNCHANGED <<imageList, currentImageIndex, prompt, globalLoadingMessage, editHotspot, displayHotspot,
                   edits>>

\* handleApplyCrop with a completed crop: synchronous, no call.
handleApplyCrop ==
    /\ CapOK(1)
    /\ edits' = edits + 1
    /\ LET newList == addImageToHistory(imageList, FreshFile(imageList, currentImageIndex),
                                        currentImageIndex)
       IN  /\ imageList' = newList
           /\ editHotspot' = AfterIdEffect(newList, currentImageIndex, editHotspot)
           /\ displayHotspot' = AfterIdEffect(newList, currentImageIndex, displayHotspot)
           /\ IdEffectView(newList, currentImageIndex)
    /\ last' = Event("crop", currentImageIndex)
    /\ UNCHANGED <<currentImageIndex, prompt, isLoading, globalLoadingMessage,
                   error, op, pending>>

ClickApplyCrop ==
    /\ EditorRendered
    /\ ~CropDisabled
    /\ handleApplyCrop

(***************************************************************************)
(* Batch: handleApplyToAll, handleRetouchAll, processImage                 *)
(* (part_004:288-352, 378-399).                                            *)
(***************************************************************************)

\* "Apply to All" buttons: rendered in batch mode (imageList.length > 1).
BatchRendered == Len(imageList) > 1
ApplyToAllDisabled == isLoading
RetouchAllDisabled == isLoading \/ prompt = ""

BatchDisabled(kind) == IF kind = "retouchAll" THEN RetouchAllDisabled ELSE ApplyToAllDisabled

MessageText(kind) == IF kind = "retouchAll" THEN "Retouching" ELSE "Processing"

\* A message that counts the records already finished.
LoadingMessageCompleted(kind, i, total) == <<MessageText(kind), i, total>>

\* `Processing ${i + 1} of ${imageList.length}...`
LoadingMessage(kind, i, total) == <<MessageText(kind), i + 1, total>>

\* The loop not awaiting processImage: the call for the next record goes out too.
IssuedCallsAhead(snapshot, i) ==
    {[index |-> j, file |-> At(At(snapshot, j).history, At(snapshot, j).historyIndex)] :
        j \in {k \in {i, i + 1} : InRange(snapshot, k)}}

\* A call that sends the original of the record instead of its current version.
IssuedCallsOriginal(snapshot, i) ==
    {[index |-> i, file |-> At(At(snapshot, i).history, 0)]}

\* The external calls one run of processImage issues for loop index i:
\* serviceFn(imageState.history[imageState.historyIndex], prompt), imageState being
\* the record of the list captured by the handler's closure.
IssuedCalls(snapshot, i) ==
    {[index |-> i, file |-> At(At(snapshot, i).history, At(snapshot, i).historyIndex)]}

\* i < imageList.length: the pause is taken after the last record too.
MoreItemsOrLast(closure) == closure.i < Len(closure.snapshot)

\* i < imageList.length - 1, on the captured list: another record follows.
MoreItems(closure) == closure.i < Len(closure.snapshot) - 1

\* One pass of the loop body up to the await inside processImage.
BatchIterate(closure, i) ==
    /\ globalLoadingMessage' = LoadingMessage(closure.kind, i, Len(closure.snapshot))
    /\ imageList' = processImageMark(imageList, i)
    /\ pending' = pending \cup IssuedCalls(closure.snapshot, i)
    /\ op' = [closure EXCEPT !.pc = "call", !.i = i,
                             !.calls = @ + Cardinality(IssuedCalls(closure.snapshot, i))]

BatchClosure(kind) == [IdleOp EXCEPT !.kind = kind, !.snapshot = imageList]

\* setIsLoading(true); setError(null); the first pass of the loop.
BatchDispatch(kind) ==
    /\ CapOK(Len(imageList))
    /\ edits' = edits + Len(imageList)
    /\ isLoading' = TRUE
    /\ error' = Null
    /\ BatchIterate(BatchClosure(kind), 0)
    /\ last' = Event(kind, 0)
    /\ UNCHANGED <<viewVars, retry>>
    /\ UNCHANGED <<currentImageIndex, prompt, editHotspot, displayHotspot>>

BatchHandler(kind) ==
    IF kind = "retouchAll" /\ prompt = ""
    THEN ErrorOnly(kind, "Please enter a description for the retouch to apply to all images.")
    ELSE BatchDispatch(kind)

ClickApplyToAll ==
    /\ EditorRendered
    /\ BatchRendered
    /\ \E kind \in BatchKinds :
          /\ ~BatchDisabled(kind)
          /\ BatchHandler(kind)

\* A loop that a failed record ends (processImage rethrowing into the handler).
BatchAfterItemAborting(failedNow) ==
    IF MoreItems(op) /\ failedNow = {}
    THEN /\ op' = [op EXCEPT !.pc = "pause", !.failed = @ \cup failedNow]
         /\ UNCHANGED <<isLoading, globalLoadingMessage, prompt>>
    ELSE /\ op' = IdleOp
         /\ isLoading' = FALSE
         /\ globalLoadingMessage' = NoMessage
         /\ prompt' = IF op.kind = "retouchAll" THEN "" ELSE prompt

\* A handler that ends without setIsLoading(false) and setGlobalLoadingMessage(null).
BatchAfterItemStillLoading(failedNow) ==
    IF MoreItems(op)
    THEN /\ op' = [op EXCEPT !.pc = "pause", !.failed = @ \cup failedNow]
         /\ UNCHANGED <<isLoading, globalLoadingMessage, prompt>>
    ELSE /\ op' = IdleOp
         /\ prompt' = IF op.kind = "retouchAll" THEN "" ELSE prompt
         /\ UNCHANGED <<isLoading, globalLoadingMessage>>

\* After processImage returns: the pause when another record follows, else the end
\* of the handler.
BatchAfterItem(failedNow) ==
    IF MoreItems(op)
    THEN /\ op' = [op EXCEPT !.pc = "pause", !.failed = @ \cup failedNow]
         /\ UNCHANGED <<isLoading, globalLoadingMessage, prompt>>
    ELSE /\ op' = IdleOp
         /\ isLoading' = FALSE
         /\ globalLoadingMessage' = NoMessage
         /\ prompt' = IF op.kind = "retouchAll" THEN "" ELSE prompt

\* The awaited service call of processImage resolved.
processImageResolve ==
    /\ op.pc = "call" /\ op.kind \in BatchKinds
    /\ \E c \in pending :
          /\ pending' = pending \ {c}
          /\ LET newList == processImageCommit(imageList, FreshFile(imageList, c.index), c.index)
             IN  /\ imageList' = newList
                 /\ editHotspot' = AfterIdEffect(newList, currentImageIndex, editHotspot)
                 /\ displayHotspot' = AfterIdEffect(newList, currentImageIndex, displayHotspot)
                 /\ IdEffectView(newList, currentImageIndex)
          /\ last' = Event("processImage_ok", c.index)
    /\ BatchAfterItem({})
    /\ UNCHANGED <<currentImageIndex, error, edits>>

\* The awaited service call of processImage rejected: the catch block.
processImageReject ==
    /\ op.pc = "call" /\ op.kind \in BatchKinds
    /\ \E c \in pending :
          /\ pending' = pending \ {c}
          /\ imageList' = processImageFail(imageList, c.index, ServiceError)
          /\ last' = Event("processImage_err", c.index)
          /\ UNCHANGED <<viewVars, retry>>
          /\ BatchAfterItem({c.index})
    /\ UNCHANGED <<currentImageIndex, error, editHotspot, displayHotspot, edits>>

\* The 500 ms timer between two records fired: the next pass of the loop.
PauseElapsed ==
    /\ op.pc = "pause"
    /\ BatchIterate(op, op.i + 1)
    /\ last' = Event("pauseElapsed", op.i + 1)
    /\ UNCHANGED <<viewVars, retry>>
    /\ UNCHANGED <<currentImageIndex, prompt, isLoading, error, editHotspot, displayHotspot, edits>>

(***************************************************************************)
(* The viewport: tabs, zoom, wheel, pan, compare                           *)
(* (part_004:677-729, 771-892, 925-941, 1085-1113).                        *)
(***************************************************************************)

\* What a viewport handler leaves alone.
SessionFrame == UNCHANGED <<imageList, currentImageIndex, prompt, isLoading,
                            globalLoadingMessage, error, editHotspot, displayHotspot, op, pending, edits,
                            retry>>

\* handleSetActiveTab, then the effect on [activeTab] that sets the default
\* interaction mode when the tab differs after the render.
handleSetActiveTab(tab) ==
    /\ IF tab \in NoZoomTabs THEN resetView ELSE UNCHANGED <<scale, translate>>
    /\ activeTab' = tab
    /\ interactionMode' = IF tab = activeTab THEN interactionMode
                          ELSE IF tab \in SelectTabs THEN "select" ELSE "pan"

\* The tab buttons: onClick={() => handleSetActiveTab(tab)}, never disabled.
ClickTab ==
    /\ EditorRendered
    /\ \E tab \in Tabs : handleSetActiveTab(tab)
    /\ last' = Event("tab", currentImageIndex)
    /\ UNCHANGED <<isComparing, isSliderDragging, sliderPosition, isPanning, panStart, pointer, click, down, zooms, wheels,
                   drags>>
    /\ SessionFrame

\* The select / pan buttons of the toolbar, rendered when isPanModeAvailable.
ClickInteractionMode ==
    /\ EditorRendered
    /\ activeTab \in SelectTabs
    /\ \E mode \in {"select", "pan"} : interactionMode' = mode
    /\ last' = Event("mode", currentImageIndex)
    /\ UNCHANGED <<activeTab, isComparing, isSliderDragging, sliderPosition, scale, translate, isPanning,
                   panStart, pointer, click, down, zooms, wheels, drags>>
    /\ SessionFrame

\* handleZoom: no guard on the tab or on compare mode; the pivot is the centre of
\* the viewport.
handleZoom(direction) ==
    LET z == zoomAt(scale, translate, ButtonZoomFactor, direction, ViewportCenter)
    IN  /\ scale' = z.scale
        /\ translate' = z.translate

\* The zoom buttons of the toolbar: rendered for every tab, never disabled.
ClickZoom(limit) ==
    /\ EditorRendered
    /\ zooms < limit
    /\ zooms' = zooms + 1
    /\ \E direction \in {"in", "out"} :
          /\ handleZoom(direction)
          /\ last' = Event(IF direction = "in" THEN "zoomIn" ELSE "zoomOut", currentImageIndex)
    /\ UNCHANGED <<activeTab, interactionMode, isComparing, isSliderDragging, sliderPosition, isPanning,
                   panStart, pointer, click, down, wheels, drags>>
    /\ SessionFrame

\* The reset-view button of the toolbar: onResetView={resetView}.
ClickResetView ==
    /\ EditorRendered
    /\ resetView
    /\ last' = Event("resetView", currentImageIndex)
    /\ UNCHANGED <<activeTab, interactionMode, isComparing, isSliderDragging, sliderPosition, isPanning,
                   panStart, pointer, click, down, zooms, wheels, drags>>
    /\ SessionFrame

\* The early return of handleWheel.
WheelIgnored == activeTab \in NoZoomTabs \/ isComparing

\* handleWheel: the pivot is the pointer; deltaY < 0 zooms in.
handleWheel(p, direction) ==
    LET z == zoomAt(scale, translate, WheelZoomFactor, direction, p)
    IN  /\ ~WheelIgnored
        /\ scale' = z.scale
        /\ translate' = z.translate

Wheel(points) ==
    /\ EditorRendered
    /\ wheels < MaxWheels
    /\ wheels' = wheels + 1
    /\ \E p \in points, direction \in {"in", "out"} :
          /\ handleWheel(p, direction)
          /\ pointer' = p
    /\ last' = Event("wheel", currentImageIndex)
    /\ UNCHANGED <<activeTab, interactionMode, isComparing, isSliderDragging, sliderPosition,
                   isPanning, panStart, click, down, zooms, drags>>
    /\ SessionFrame

(***************************************************************************)
(* The hotspot mapper and the compare slider (part_004:771-856).           *)
(***************************************************************************)

NaturalSizes == {<<1000, 500>>, <<500, 1000>>}
RenderedSizes == {<<400, 400>>, <<400, 200>>}
ClickPoints == {<<200, 150>>, <<1, 101>>, <<200, 50>>, <<400, 300>>, <<50, 100>>, <<-40, 100>>,
                <<440, 260>>}

\* The mouse-downs on a loaded image.
LoadedClicks ==
    {Geometry(n, r, at) : n \in NaturalSizes, r \in RenderedSizes, at \in ClickPoints}

\* A mouse-down while the img element has no size yet.
UnloadedClick == Geometry(<<1000, 500>>, <<0, 0>>, <<0, 0>>)

\* 1000 x 500 shown in 400 x 400, clicked at (200, 150).
ExampleClick == Geometry(<<1000, 500>>, <<400, 400>>, <<200, 150>>)

\* Math.round of a rational: the nearest whole number, halves upwards.
Round(a) == (2 * a[1] + a[2]) \div (2 * a[2])

naturalAspectRatio(g) == Rat(g.natural[1], g.natural[2])
renderedAspectRatio(g) == Rat(g.rendered[1], g.rendered[2])

\* The image fills the width of the rect, with bars above and below.
fillsWidth(g) == RLess(renderedAspectRatio(g), naturalAspectRatio(g))

visibleImageWidth(g) ==
    IF fillsWidth(g) THEN Whole(g.rendered[1])
    ELSE RMul(Whole(g.rendered[2]), naturalAspectRatio(g))

visibleImageHeight(g) ==
    IF fillsWidth(g) THEN RDiv(Whole(g.rendered[1]), naturalAspectRatio(g))
    ELSE Whole(g.rendered[2])

offsetX(g) ==
    IF fillsWidth(g) THEN Whole(0)
    ELSE RDiv(RSub(Whole(g.rendered[1]), visibleImageWidth(g)), Whole(2))

\* The vertical offset without the bars.
offsetYNoBars(g) == Whole(0)

offsetY(g) ==
    IF fillsWidth(g) THEN RDiv(RSub(Whole(g.rendered[2]), visibleImageHeight(g)), Whole(2))
    ELSE Whole(0)

clickXOnVisible(g) == RSub(Whole(g.at[1]), offsetX(g))
clickYOnVisible(g) == RSub(Whole(g.at[2]), offsetY(g))

\* No click counts as outside.
outsideVisibleNever(g) == FALSE

\* The click fell into the bars.
outsideVisible(g) ==
    \/ RLess(clickXOnVisible(g), Whole(0))
    \/ RLess(visibleImageWidth(g), clickXOnVisible(g))
    \/ RLess(clickYOnVisible(g), Whole(0))
    \/ RLess(visibleImageHeight(g), clickYOnVisible(g))

\* The early returns of the hotspot branch: a rect without size, a click in the bars.
hotspotIgnored(g) ==
    \/ g.rendered[1] = 0 \/ g.rendered[2] = 0
    \/ outsideVisible(g)

\* The factor taken from the visible height instead of the visible width.
scaleFactorFromVisibleHeight(g) == RDiv(visibleImageHeight(g), Whole(g.natural[1]))

scaleFactorFromNaturalToVisible(g) == RDiv(visibleImageWidth(g), Whole(g.natural[1]))

\* { x: originalX, y: originalY }
originalPoint(g) ==
    <<Round(RDiv(clickXOnVisible(g), scaleFactorFromNaturalToVisible(g))),
      Round(RDiv(clickYOnVisible(g), scaleFactorFromNaturalToVisible(g)))>>

\* { x: displayX, y: displayY }: the click in the container divided by scale.
displayPoint(g, s) == <<RDiv(Whole(g.at[1]), s), RDiv(Whole(g.at[2]), s)>>

\* (x / rect.width) * 100 as it is.
sliderAtUnclamped(g) == RMul(Rat(g.at[1], g.rendered[1]), Whole(100))

\* Math.max(0, Math.min(100, (x / rect.width) * 100))
sliderAt(g) ==
    RMax(Whole(0), RMin(Whole(100), RMul(Rat(g.at[1], g.rendered[1]), Whole(100))))

\* The hotspot branch of handleMouseDown is taken in select mode on a select tab.
SelectBranch == interactionMode = "select" /\ activeTab \in SelectTabs

\* handleMouseDown with the left button, at p in the viewport and at g.at in the
\* image container: in compare mode it starts a slider drag and returns; in select
\* mode it places the hotspot, unless the click is ignored, and returns;
\* otherwise, outside crop and resize, it starts a pan.
handleMouseDown(p, g) ==
    IF isComparing
    THEN /\ g.rendered[1] > 0
         /\ isSliderDragging' = TRUE
         /\ sliderPosition' = IF activeTab = "crop" THEN sliderPosition ELSE sliderAt(g)
         /\ UNCHANGED <<editHotspot, displayHotspot, isPanning, panStart, pointer, click, down,
                        drags>>
    ELSE IF SelectBranch
    THEN /\ click' = g
         /\ IF hotspotIgnored(g)
            THEN UNCHANGED <<editHotspot, displayHotspot>>
            ELSE /\ editHotspot' = originalPoint(g)
                 /\ displayHotspot' = displayPoint(g, scale)
         /\ UNCHANGED <<isSliderDragging, sliderPosition, isPanning, panStart, pointer, down,
                        drags>>
    ELSE /\ activeTab \notin NoZoomTabs
         /\ drags < MaxDrags
         /\ drags' = drags + 1
         /\ isPanning' = TRUE
         /\ panStart' = <<RSub(p[1], translate[1]), RSub(p[2], translate[2])>>
         /\ pointer' = p
         /\ down' = [at |-> p, translate |-> translate]
         /\ UNCHANGED <<editHotspot, displayHotspot, isSliderDragging, sliderPosition, click>>

\* onMouseDown of the viewport, with the mouse-downs on the image drawn from geometries.
MouseDownOn(geometries) ==
    /\ EditorRendered
    /\ \E p \in PointerPoints, g \in geometries : handleMouseDown(p, g)
    /\ last' = Event("mouseDown", currentImageIndex)
    /\ UNCHANGED <<activeTab, interactionMode, isComparing, scale, translate, zooms, wheels>>
    /\ UNCHANGED <<imageList, currentImageIndex, prompt, isLoading, globalLoadingMessage,
                   error, op, pending, edits, retry>>

MouseDown == MouseDownOn({ExampleClick})

\* handleMouseMove that forgets panStart.
handleMouseMoveToPointer(p) ==
    /\ isPanning
    /\ translate' = p

\* handleMouseMove: only isPanning.current is consulted.
handleMouseMove(p) ==
    /\ isPanning
    /\ translate' = <<RSub(p[1], panStart[1]), RSub(p[2], panStart[2])>>

MouseMove ==
    /\ EditorRendered
    /\ \E p \in PointerPoints :
          /\ handleMouseMove(p)
          /\ pointer' = p
    /\ last' = Event("mouseMove", currentImageIndex)
    /\ UNCHANGED <<activeTab, interactionMode, isComparing, isSliderDragging, sliderPosition,
                   scale, isPanning, panStart, click, down, zooms, wheels, drags>>
    /\ SessionFrame

\* handleMouseUpOrLeave
handleMouseUpOrLeave == isPanning' = FALSE

\* handleEnd of the slider effect: the window listeners exist while isSliderDragging.
handleEnd == isSliderDragging' = FALSE

\* The button is released over the viewport: onMouseUp, then the window's mouseup.
MouseUp ==
    /\ EditorRendered
    /\ handleMouseUpOrLeave
    /\ handleEnd
    /\ last' = Event("mouseUp", currentImageIndex)
    /\ UNCHANGED <<activeTab, interactionMode, isComparing, sliderPosition, scale, translate,
                   panStart, pointer, click, down, zooms, wheels, drags>>
    /\ SessionFrame

\* The pointer leaves the viewport: onMouseLeave.
MouseLeave ==
    /\ EditorRendered
    /\ handleMouseUpOrLeave
    /\ last' = Event("mouseLeave", currentImageIndex)
    /\ UNCHANGED <<activeTab, interactionMode, isComparing, isSliderDragging, sliderPosition, scale, translate,
                   panStart, pointer, click, down, zooms, wheels, drags>>
    /\ SessionFrame

\* handleToggleCompare; the compare button is rendered when canCompare={canUndo}.
handleToggleCompare ==
    /\ isComparing' = ~isComparing
    /\ sliderPosition' = Whole(50)

ClickToggleCompare ==
    /\ EditorRendered
    /\ canUndo
    /\ handleToggleCompare
    /\ last' = Event("compare", currentImageIndex)
    /\ UNCHANGED <<activeTab, interactionMode, isSliderDragging, scale, translate, isPanning,
                   panStart, pointer, click, down, zooms, wheels, drags>>
    /\ SessionFrame

\* The image container is rendered in every tab but crop.
ContainerRendered == EditorRendered /\ activeTab # "crop"

\* handleMove of the slider effect, a listener of the window while isSliderDragging.
handleMove(g) ==
    /\ isSliderDragging
    /\ ContainerRendered
    /\ sliderPosition' = sliderAt(g)

\* The pointer or the finger moves during a slider drag, on or off the container.
SliderMove(geometries) ==
    /\ \E g \in geometries : handleMove(g)
    /\ last' = Event("sliderMove", currentImageIndex)
    /\ UNCHANGED <<activeTab, interactionMode, isComparing, isSliderDragging, scale, translate,
                   isPanning, panStart, pointer, click, down, zooms, wheels, drags>>
    /\ SessionFrame

\* handleTouchStart: in compare mode it starts a slider drag; otherwise nothing.
handleTouchStart(g) ==
    /\ isComparing
    /\ isSliderDragging' = TRUE
    /\ sliderPosition' = IF ContainerRendered THEN sliderAt(g) ELSE sliderPosition

TouchStart(geometries) ==
    /\ EditorRendered
    /\ \E g \in geometries : handleTouchStart(g)
    /\ last' = Event("touchStart", currentImageIndex)
    /\ UNCHANGED <<activeTab, interactionMode, isComparing, scale, translate, isPanning,
                   panStart, pointer, click, down, zooms, wheels, drags>>
    /\ SessionFrame

\* The finger is lifted, or the button is released off the viewport, during a
\* slider drag: the window's touchend / mouseup listener.
SliderEnd ==
    /\ isSliderDragging
    /\ handleEnd
    /\ last' = Event("sliderEnd", currentImageIndex)
    /\ UNCHANGED <<activeTab, interactionMode, isComparing, sliderPosition, scale, translate,
                   isPanning, panStart, pointer, click, down, zooms, wheels, drags>>
    /\ SessionFrame

\* The Apply Crop button of the crop panel, rendered when activeTab = 'crop'.
ClickApplyCropInTab ==
    /\ activeTab = "crop"
    /\ ClickApplyCrop

Next ==
    \/ handleSingleImageUpload
    \/ handleMultipleImageUpload
    \/ ClickUploadNew
    \/ FilmstripSelect
    \/ KeyArrow
    \/ ClickUndo
    \/ ClickRedo
    \/ ClickReset
    \/ TypePrompt
    \/ ClickHotspot
    \/ ClickTryAgain
    \/ ClickSingleEdit
    \/ SingleEditResolve
    \/ SingleEditReject
    \/ ClickApplyCrop
    \/ ClickApplyToAll
    \/ processImageResolve
    \/ processImageReject
    \/ PauseElapsed

Spec == Init /\ [][Next]_vars

\* The viewport of one loaded image under zoom, wheel and reset, deep enough for
\* the scale to meet both ends of its range; the wheel turns over the centre.
ZoomNext ==
    \/ handleSingleImageUpload
    \/ ClickZoom(MaxZooms)
    \/ Wheel(CentrePoints)
    \/ ClickResetView

ZoomSpec == Init /\ [][ZoomNext]_vars

\* The zoom, wheel and pan gestures of a run of ResetSpec or GestureSpec share
\* one budget.
GestureLeft == zooms + wheels + drags < MaxDrags

\* The viewport over a session of uploads, selections and tab switches.
ResetNext ==
    \/ handleMultipleImageUpload
    \/ ClickUploadNew
    \/ FilmstripSelect
    \/ KeyArrow
    \/ ClickTab
    \/ GestureLeft /\ ClickZoom(MaxDrags)
    \/ GestureLeft /\ Wheel(PointerPoints)
    \/ ClickResetView

ResetSpec == Init /\ [][ResetNext]_vars

\* The pointer and the toolbar over one image: tabs, zoom, wheel, pan, compare.
GestureNext ==
    \/ handleSingleImageUpload
    \/ ClickApplyCropInTab
    \/ ClickTab
    \/ ClickInteractionMode
    \/ GestureLeft /\ ClickZoom(MaxDrags)
    \/ GestureLeft /\ Wheel(PointerPoints)
    \/ ClickResetView
    \/ (GestureLeft \/ isComparing \/ SelectBranch) /\ MouseDown
    \/ MouseMove
    \/ MouseUp
    \/ MouseLeave
    \/ ClickToggleCompare

GestureSpec == Init /\ [][GestureNext]_vars

\* Mouse-downs on the image in select mode, over loaded and unloaded images at
\* several scales.
HotspotNext ==
    \/ handleSingleImageUpload
    \/ GestureLeft /\ ClickZoom(MaxDrags)
    \/ MouseDownOn(LoadedClicks \cup {UnloadedClick})

HotspotSpec == Init /\ [][HotspotNext]_vars

\* The pointer positions of a slider drag over one rect, on and off the container.
SliderClicks == {Geometry(<<1000, 500>>, <<400, 400>>, at) : at \in ClickPoints}

\* The compare slider of one image: compare mode on and off, mouse and touch drags.
SliderNext ==
    \/ handleSingleImageUpload
    \/ ClickTab
    \/ ClickApplyCropInTab
    \/ ClickToggleCompare
    \/ isComparing /\ MouseDownOn(SliderClicks)
    \/ TouchStart(SliderClicks)
    \/ SliderMove(SliderClicks)
    \/ MouseUp
    \/ SliderEnd

SliderSpec == Init /\ [][SliderNext]_vars

\* A session that fills every field Upload New is to clear, with edits in flight.
UploadNewNext ==
    \/ handleMultipleImageUpload
    \/ ClickUploadNew
    \/ TypePrompt
    \/ ClickHotspot
    \/ ClickApplyCrop
    \/ ClickToggleCompare
    \/ GestureLeft /\ ClickZoom(MaxDrags)
    \/ ClickApplyToAll
    \/ processImageResolve
    \/ processImageReject
    \/ PauseElapsed

UploadNewSpec == Init /\ [][UploadNewNext]_vars

\* Versions of the active record come and go while compare mode and a hotspot
\* are set.
VersionNext ==
    \/ handleMultipleImageUpload
    \/ FilmstripSelect
    \/ ClickHotspot
    \/ ClickApplyCrop
    \/ ClickUndo
    \/ ClickRedo
    \/ ClickReset
    \/ ClickToggleCompare

VersionSpec == Init /\ [][VersionNext]_vars

\* One run of withRetry, for every argument and every outcome of each attempt.
RetryNext ==
    \/ withRetryCall
    \/ fnResolves
    \/ fnRejects
    \/ waitElapsed

RetrySpec == Init /\ [][RetryNext]_vars

\* The edits of a session and what the user can do while they run.
TerminationNext ==
    \/ handleMultipleImageUpload
    \/ FilmstripSelect
    \/ TypePrompt
    \/ ClickTryAgain
    \/ ClickSingleEdit
    \/ SingleEditResolve
    \/ SingleEditReject
    \/ ClickApplyToAll
    \/ processImageResolve
    \/ processImageReject
    \/ PauseElapsed

\* Every external call settles, and the 500 ms timer of the pause fires.
CallsSettle ==
    /\ WF_vars(SingleEditResolve \/ SingleEditReject)
    /\ WF_vars(processImageResolve \/ processImageReject)
    /\ WF_vars(PauseElapsed)

TerminationSpec == Init /\ [][TerminationNext]_vars /\ CallsSettle

(***************************************************************************)
(* Properties.                                                             *)
(***************************************************************************)

\* The events that commit a new version to a record.
CommitEvents == {"singleResolve", "crop", "processImage_ok"}

\* The file a record was created from at upload.
OriginalOf(rec) == <<rec.id, 0>>

\* C1: in every reachable state every record has a non-empty history, a cursor
\* with 0 <= historyIndex <= history.length - 1, and its originally uploaded file
\* at history[0], whatever appends, undos, redos and resets have happened.
C1_HistoryBounds ==
    \A k \in DOMAIN imageList :
        LET rec == imageList[k]
        IN  /\ Len(rec.history) >= 1
            /\ 0 <= rec.historyIndex
            /\ rec.historyIndex <= Len(rec.history) - 1
            /\ rec.history[1] = OriginalOf(rec)

\* C1 witness: a record that was edited twice and then taken back to its original.
C1_Witness ==
    /\ last.name = "undo"
    /\ HasCurrent
    /\ Len(currentImageState.history) = 3
    /\ currentImageState.historyIndex = 0

\* C2: a commit on a record with cursor i and history h leaves h[0..i] followed by
\* the new file, a file that was not in h, and moves the cursor to i + 1: the redo
\* branch is discarded and nothing at or before i changes.
C2_AppendDiscardsRedoBranch ==
    [][last'.name \in CommitEvents =>
          LET old == At(imageList, last'.index)
              new == At(imageList', last'.index)
              i == old.historyIndex
          IN  /\ Len(new.history) = i + 2
              /\ \A k \in 1 .. (i + 1) : new.history[k] = old.history[k]
              /\ new.history[i + 2] \notin Range(old.history)
              /\ new.historyIndex = i + 1]_vars

\* C2 witness: [a,b,c] at index 2, undo, append d: the history is [a,b,d] at
\* index 2, d being the version after c.
C2_Witness ==
    /\ last.name \in CommitEvents
    /\ InRange(imageList, last.index)
    /\ LET rec == At(imageList, last.index)
       IN  /\ rec.history = <<OriginalOf(rec), <<rec.id, 1>>, <<rec.id, 3>>>>
           /\ rec.historyIndex = 2

\* The records on which undo, or redo, is at its boundary.
AtFirst == HasCurrent /\ currentImageState.historyIndex = 0
AtLast == HasCurrent /\ currentImageState.historyIndex = Len(currentImageState.history) - 1

\* C3 as stated: an undo requested at index 0, and a redo requested at the last
\* index, is a step that fails with NoOpError and changes nothing.
C3_Original ==
    /\ (EditorRendered /\ AtFirst) =>
          ENABLED (handleUndo /\ last'.raised = "NoOpError" /\ UNCHANGED imageList)
    /\ (EditorRendered /\ AtLast) =>
          ENABLED (handleRedo /\ last'.raised = "NoOpError" /\ UNCHANGED imageList)

\* C3 amended: an undo requested at index 0, and a redo requested at the last index,
\* is ignored: the control is disabled and the handler's guard is false, so no
\* step is taken, the session state is unchanged and no error is raised.
C3_BoundaryIgnored ==
    /\ AtFirst => (UndoDisabled /\ ~ENABLED handleUndo /\ ~ENABLED ClickUndo)
    /\ AtLast => (RedoDisabled /\ ~ENABLED handleRedo /\ ~ENABLED ClickRedo)
    /\ last.raised = "none"

\* C3 witness: after an undo the editor shows a record at its first version, with
\* versions to redo: undo is at its boundary and redo is not.
C3_Witness ==
    /\ EditorRendered
    /\ ~isLoading
    /\ last.name = "undo"
    /\ AtFirst
    /\ ~AtLast

\* C4: an undo moves the cursor of the active record down by exactly 1 and a redo
\* up by exactly 1, and neither changes the record's history.
C4_UndoRedoStep ==
    [][last'.name \in {"undo", "redo"} =>
          LET old == At(imageList, currentImageIndex)
              new == At(imageList', currentImageIndex)
          IN  /\ new.history = old.history
              /\ new.historyIndex =
                    old.historyIndex + (IF last'.name = "undo" THEN -1 ELSE 1)]_vars

\* C4 witness: a redo has put back the last of two edits.
C4_Witness ==
    /\ last.name = "redo"
    /\ HasCurrent
    /\ Len(currentImageState.history) = 3
    /\ currentImageState.historyIndex = 2

\* index redos applied one after the other to the record at index.
RECURSIVE RedoTimes(_, _, _)
RedoTimes(list, index, n) ==
    IF n = 0 THEN list ELSE redoList(RedoTimes(list, index, n - 1), index)

\* C5: reset-to-original puts the cursor of the active record at 0 and keeps its
\* history, so that n allowed redos lead to version n for every n; a second reset
\* changes nothing.
C5_ResetKeepsHistory ==
    [][last'.name = "reset" =>
          LET old == At(imageList, currentImageIndex)
              new == At(imageList', currentImageIndex)
          IN  /\ new.historyIndex = 0
              /\ new.history = old.history
              /\ \A n \in 1 .. (Len(new.history) - 1) :
                    /\ canRedoRec(At(RedoTimes(imageList', currentImageIndex, n - 1),
                                     currentImageIndex))
                    /\ At(RedoTimes(imageList', currentImageIndex, n),
                          currentImageIndex).historyIndex = n
              /\ resetList(imageList', currentImageIndex) = imageList'
              /\ error' = Null]_vars

\* C5 witness: a reset from the last of two edits.
C5_Witness ==
    /\ last.name = "reset"
    /\ HasCurrent
    /\ Len(currentImageState.history) = 3
    /\ currentImageState.historyIndex = 0

\* The step on which a batch ends: the last awaited call settles and the handler
\* runs to its end.
BatchEnds == op.pc = "call" /\ op.kind \in BatchKinds /\ op'.pc = "idle"

\* The indices whose call failed, in the batch that ends on this step.
FailedAtEnd ==
    op.failed \cup (IF last'.name = "processImage_err" THEN {last'.index} ELSE {})

\* rec holds exactly the versions of before up to its cursor and one new file.
CommittedAfter(rec, before) ==
    /\ Len(rec.history) = before.historyIndex + 2
    /\ \A k \in 1 .. (before.historyIndex + 1) : rec.history[k] = before.history[k]
    /\ rec.history[Len(rec.history)] \notin Range(before.history)
    /\ rec.historyIndex = before.historyIndex + 1

SameHistory(rec, before) ==
    rec.history = before.history /\ rec.historyIndex = before.historyIndex

\* C6 as stated: when a batch over N records in which exactly the call for record k
\* failed ends, N calls were made, record k has its history and cursor unchanged and
\* an error, and every other record has one history entry more and no error.
C6_Original ==
    [][(BatchEnds /\ Cardinality(FailedAtEnd) = 1) =>
          /\ op.calls = Len(op.snapshot)
          /\ Len(imageList') = Len(op.snapshot)
          /\ \A j \in Indices(op.snapshot) :
                LET rec == At(imageList', j)
                    before == At(op.snapshot, j)
                IN  IF j \in FailedAtEnd
                    THEN SameHistory(rec, before) /\ rec.error # Null
                    ELSE /\ Len(rec.history) = Len(before.history) + 1
                         /\ rec.error = Null]_vars

\* C6 amended: as C6, but every other record has one new version committed after
\* its cursor (its history is history[0..historyIndex] and the new version, which
\* is one entry more only when it had no redo branch) and no error.
C6_BatchIsolatesFailure ==
    [][(BatchEnds /\ Cardinality(FailedAtEnd) = 1) =>
          /\ op.calls = Len(op.snapshot)
          /\ Len(imageList') = Len(op.snapshot)
          /\ \A j \in Indices(op.snapshot) :
                LET rec == At(imageList', j)
                    before == At(op.snapshot, j)
                IN  IF j \in FailedAtEnd
                    THEN SameHistory(rec, before) /\ rec.error # Null
                    ELSE CommittedAfter(rec, before) /\ rec.error = Null]_vars

\* C6 witness: a batch has ended in which the call for the first record failed
\* and the one for the last record succeeded.
C6_Witness ==
    /\ last.name = "processImage_ok"
    /\ op.pc = "idle"
    /\ ~isLoading
    /\ Len(imageList) >= 2
    /\ imageList[1].error # Null
    /\ \A k \in 2 .. Len(imageList) : imageList[k].error = Null

\* C7: when a batch ends, every record is not processing and either has a new
\* version committed and no error, or its history unchanged and an error.
C7_BatchTerminalShapes ==
    [][BatchEnds =>
          \A j \in Indices(op.snapshot) :
              LET rec == At(imageList', j)
                  before == At(op.snapshot, j)
              IN  /\ rec.isProcessing = FALSE
                  /\ \/ CommittedAfter(rec, before) /\ rec.error = Null
                     \/ SameHistory(rec, before) /\ rec.error # Null]_vars

\* C7 witness: a batch has ended on a failure after a success.
C7_Witness ==
    /\ last.name = "processImage_err"
    /\ op.pc = "idle"
    /\ ~isLoading
    /\ Len(imageList[1].history) >= 2
    /\ imageList[1].error = Null
    /\ imageList[Len(imageList)].error # Null

\* C8: in a batch at most one call is in flight, and a call is issued only when
\* none is in flight, for the index after the one that settled last (0 first), all
\* records before it having been committed or marked failed.
C8_BatchSequential ==
    /\ [](op.kind \in BatchKinds => Cardinality(pending) <= 1)
    /\ [][(op'.kind \in BatchKinds /\ pending' # pending /\ pending' # {}) =>
             /\ pending = {}
             /\ \E c \in pending' :
                   /\ pending' = {c}
                   /\ c.index = (IF op.pc = "idle" THEN 0 ELSE op.i + 1)
                   /\ \A j \in 0 .. (c.index - 1) :
                         LET rec == At(imageList', j)
                             before == At(op'.snapshot, j)
                         IN  /\ rec.isProcessing = FALSE
                             /\ \/ CommittedAfter(rec, before)
                                \/ rec.error # Null]_vars

\* C8 witness: the call for the second record is in flight.
C8_Witness ==
    /\ op.kind \in BatchKinds
    /\ op.pc = "call"
    /\ op.i = 1
    /\ pending # {}

\* The events that are an edit, an undo, a redo, a reset or a new upload dispatched
\* by the user.
DispatchEvents ==
    SingleKinds \cup BatchKinds \cup {"undo", "redo", "reset", "crop", "uploadNew",
                                      "loadSingle", "loadMultiple"}

\* C9: while an asynchronous edit is outstanding, the session is loading, at most
\* one call is in flight, and no edit, undo, redo or reset is dispatched.
C9_EditsSerialized ==
    /\ [](op.pc # "idle" => (isLoading /\ Cardinality(pending) <= 1))
    /\ [](pending # {} => op.pc = "call")
    /\ [][op.pc # "idle" => last'.name \notin DispatchEvents]_vars

\* C9 witness: an edit on the active record is in flight, and that record has a
\* version to undo to.
C9_Witness ==
    /\ op.pc = "call"
    /\ op.kind \in SingleKinds
    /\ op.index = currentImageIndex
    /\ canUndo
    /\ canRedo

\* C10: the result of a call is committed to the record index captured at
\* dispatch, whichever record is active when it settles, and no other record
\* changes.
C10_CommitToCapturedIndex ==
    [][last'.name \in {"singleResolve", "processImage_ok"} =>
          LET captured == IF op.kind \in SingleKinds THEN op.index ELSE op.i
          IN  /\ InRange(imageList, captured)
              /\ CommittedAfter(At(imageList', captured), At(imageList, captured))
              /\ \A j \in Indices(imageList) :
                    j # captured =>
                        /\ At(imageList', j).history = At(imageList, j).history
                        /\ At(imageList', j).historyIndex = At(imageList, j).historyIndex
              /\ Len(imageList') = Len(imageList)]_vars

\* C10 witness: a single-image edit settled after the user had selected another
\* record.
C10_Witness ==
    /\ last.name = "singleResolve"
    /\ last.index # currentImageIndex
    /\ InRange(imageList, last.index)
    /\ Len(At(imageList, last.index).history) >= 2

\* The events that update the record at one index.
RecordEvents ==
    CommitEvents \cup BatchKinds \cup {"undo", "redo", "reset", "processImage_err",
                                       "pauseElapsed"}

\* The events that replace the whole list.
ListEvents == {"loadSingle", "loadMultiple", "uploadNew"}

\* C11: an append, undo, redo, reset, processing mark or error record on index i
\* replaces only the record at i: the list keeps its length and order and every
\* other record is unchanged in every field; no other event but an upload or
\* Upload New changes the list.
C11_OnlyTargetReplaced ==
    [][/\ last'.name \in RecordEvents =>
             /\ Len(imageList') = Len(imageList)
             /\ \A j \in Indices(imageList) :
                   j # last'.index => At(imageList', j) = At(imageList, j)
       /\ last'.name \notin (RecordEvents \cup ListEvents) => imageList' = imageList]_vars

\* C11 witness: the second record of a batch has been marked as processing and
\* the first keeps the error its call left.
C11_Witness ==
    /\ last.name = "pauseElapsed"
    /\ last.index = 1
    /\ Len(imageList) >= 2
    /\ imageList[1].error # Null
    /\ ~imageList[1].isProcessing
    /\ imageList[2].isProcessing

\* A single-image edit is in flight.
SingleInFlight == op.pc = "call" /\ op.kind \in SingleKinds

C14_CommitClearsError ==
    [][last'.name \in {"singleResolve", "processImage_ok"} =>
          At(imageList', last'.index).error = Null]_vars

\* The record that an upload makes of its k-th file.
LoadedRecord(k) ==
    [id |-> k, name |-> k, history |-> <<<<k, 0>>>>, historyIndex |-> 0,
     isProcessing |-> FALSE, error |-> Null]

\* C15: an upload of N files leaves exactly N records, in input order, with
\* pairwise distinct ids, each with its file as only version, cursor 0, not
\* processing and without error, the first one active; a single upload leaves
\* one; no record or version of the session before is left.
C15_LoadReplacesSession ==
    [][last'.name \in {"loadSingle", "loadMultiple"} =>
          /\ \E n \in 1 .. MaxImages :
                /\ last'.name = "loadSingle" => n = 1
                /\ imageList' = [k \in 1 .. n |-> LoadedRecord(k)]
          /\ \A j, k \in DOMAIN imageList' :
                j # k => imageList'[j].id # imageList'[k].id
          /\ currentImageIndex' = 0
          /\ error' = Null]_vars

\* C15 witness: two files were loaded after a session in which an edit was made.
C15_Witness ==
    /\ last.name = "loadMultiple"
    /\ Len(imageList) = 2
    /\ edits > 0

\* The events that select the active record.
SelectEvents == {"select", "ArrowRight", "ArrowLeft"}

\* C16 as stated: a selection with an index outside the list is a step that fails
\* with IndexError and leaves currentImageIndex unchanged.
C16_Original ==
    FilmstripRendered =>
        \A index \in {-1, Len(imageList)} :
            ENABLED (/\ SelectIndex("select", index)
                     /\ last'.raised = "IndexError"
                     /\ currentImageIndex' = currentImageIndex)

\* C16 amended: no selection with an index outside the list is ever made (the
\* filmstrip has one button per record and the arrow keys wrap around) and no
\* IndexError exists; a selection sets currentImageIndex to its in-range index
\* and changes no record, and currentImageIndex is inside every non-empty list.
C16_SelectInRange ==
    /\ [](Len(imageList) > 0 => InRange(imageList, currentImageIndex))
    /\ [][last'.name \in SelectEvents =>
             /\ InRange(imageList, last'.index)
             /\ currentImageIndex' = last'.index
             /\ imageList' = imageList
             /\ last'.raised = "none"]_vars

\* C16 witness: ArrowRight on the last record has wrapped around to the first.
C16_Witness ==
    /\ last.name = "ArrowRight"
    /\ last.index = 0
    /\ currentImageIndex = 0
    /\ Len(imageList) >= 2

\* The scale lies in [0.2, 5].
ScaleInRange == RLeq(MinScale, scale) /\ RLeq(scale, MaxScale)

\* The value of x brought into [0.2, 5].
Clamped(x) == IF RLess(x, MinScale) THEN MinScale ELSE IF RLess(MaxScale, x) THEN MaxScale ELSE x

\* C17: in every reachable state the scale lies in [0.2, 5]; a click on zoom in
\* (zoom out) stores the scale times (divided by) 1.2 brought into [0.2, 5], a
\* wheel step stores the scale times or divided by 1.1 brought into [0.2, 5], and
\* reset view stores 1, whatever zoom, wheel and reset steps came before.
C17_ScaleClamped ==
    /\ []ScaleInRange
    /\ [][/\ last'.name = "zoomIn" => scale' = Clamped(RMul(scale, <<6, 5>>))
          /\ last'.name = "zoomOut" => scale' = Clamped(RDiv(scale, <<6, 5>>))
          /\ last'.name = "wheel" => scale' \in {Clamped(RMul(scale, <<11, 10>>)),
                                                 Clamped(RDiv(scale, <<11, 10>>))}
          /\ last'.name = "resetView" => scale' = <<1, 1>>]_vars

\* A click on zoom in has just been cut off at the upper end of the range.
C17_Witness == last.name = "zoomIn" /\ scale = MaxScale /\ zooms = MaxZooms

\* transformOrigin: 'center center' of the transformed container, a box that
\* fills the viewport (w-full h-full).
TransformOrigin == ViewportCenter

\* Where the point q of the container is displayed under
\* transform: translate(t) scale(s) about TransformOrigin.
ScreenOf(q, s, t) ==
    <<RAdd(RAdd(TransformOrigin[1], t[1]), RMul(s, RSub(q[1], TransformOrigin[1]))),
      RAdd(RAdd(TransformOrigin[2], t[2]), RMul(s, RSub(q[2], TransformOrigin[2])))>>

\* The point of the container displayed at p.
ImagePointAt(p, s, t) ==
    <<RAdd(TransformOrigin[1], RDiv(RSub(RSub(p[1], t[1]), TransformOrigin[1]), s)),
      RAdd(TransformOrigin[2], RDiv(RSub(RSub(p[2], t[2]), TransformOrigin[2]), s))>>

\* The point displayed at p before the step is displayed at p after it.
PivotKept(p) == ScreenOf(ImagePointAt(p, scale, translate), scale', translate') = p

\* C18: a click on a zoom button keeps the image point under the centre of the
\* viewport where it is, and a wheel step keeps the image point under the pointer
\* where it is, under the transform the viewport applies to the container
\* (translate, scale, transform origin).
C18_PivotFixed ==
    [][/\ last'.name \in {"zoomIn", "zoomOut"} => PivotKept(ViewportCenter)
       /\ last'.name = "wheel" => PivotKept(pointer')]_vars

\* The step makes another record, or the first record of a new set, the active one.
ActiveImageChanges ==
    /\ Len(imageList') > 0
    /\ CurrentId(imageList', currentImageIndex') # CurrentId(imageList, currentImageIndex)

\* The step is a click on the crop or the resize tab.
SwitchToCropOrResize == last'.name = "tab" /\ activeTab' \in NoZoomTabs

\* C19: after every step that changes the active image (another record is
\* selected, a new set is loaded) and after every click on the crop or the resize
\* tab, scale = 1 and translate = (0, 0).
C19_ViewResetOnChange ==
    [][(ActiveImageChanges \/ SwitchToCropOrResize)
          => scale' = <<1, 1>> /\ translate' = <<<<0, 1>>, <<0, 1>>>>]_vars

\* Another record has just been selected in a run in which the view was zoomed.
C19_Witness ==
    /\ last.name \in SelectEvents
    /\ currentImageIndex = 1
    /\ zooms + wheels > 0
    /\ scale = InitialScale /\ translate = InitialTranslate

\* The user actions that zoom or pan: the zoom buttons, the wheel, a move of the
\* pointer during a pan.
ZoomPanEvents == {"zoomIn", "zoomOut", "wheel", "mouseMove"}

\* C20: while the active tab is crop or resize, and while the compare slider is
\* being dragged, no click on a zoom button, wheel step or pointer move changes
\* scale or translate; a mouse-down in compare mode starts a slider drag and
\* starts no pan.
C20_NoZoomPanInCropResize ==
    [][/\ ((activeTab \in NoZoomTabs \/ isSliderDragging) /\ last'.name \in ZoomPanEvents)
             => UNCHANGED <<scale, translate>>
       /\ (isComparing /\ last'.name = "mouseDown")
             => isSliderDragging' /\ UNCHANGED <<isPanning, panStart>>]_vars

\* The step is a mouse-down that takes the hotspot branch.
HotspotMouseDown == last'.name = "mouseDown" /\ ~isComparing /\ SelectBranch

\* Contain-letterboxing as the claims state it, for a mouse-down g on an img rect
\* with a size: the visible width and height and the offsets of the image.
WiderThanRect(g) == g.natural[1] * g.rendered[2] > g.natural[2] * g.rendered[1]
VisibleWidth(g) ==
    IF WiderThanRect(g) THEN Whole(g.rendered[1])
    ELSE Rat(g.rendered[2] * g.natural[1], g.natural[2])
VisibleHeight(g) ==
    IF WiderThanRect(g) THEN Rat(g.rendered[1] * g.natural[2], g.natural[1])
    ELSE Whole(g.rendered[2])
OffsetX(g) ==
    IF WiderThanRect(g) THEN Whole(0)
    ELSE RDiv(RSub(Whole(g.rendered[1]), VisibleWidth(g)), Whole(2))
OffsetY(g) ==
    IF WiderThanRect(g) THEN RDiv(RSub(Whole(g.rendered[2]), VisibleHeight(g)), Whole(2))
    ELSE Whole(0)

\* The click lies on the visible image, borders included.
OnVisibleImage(g) ==
    /\ g.rendered[1] > 0 /\ g.rendered[2] > 0
    /\ RLeq(OffsetX(g), Whole(g.at[1])) /\ RLeq(Whole(g.at[1]), RAdd(OffsetX(g), VisibleWidth(g)))
    /\ RLeq(OffsetY(g), Whole(g.at[2])) /\ RLeq(Whole(g.at[2]), RAdd(OffsetY(g), VisibleHeight(g)))

\* The click minus the offset, times naturalWidth / visibleWidth, on both axes.
ScaledClick(g) ==
    <<RDiv(RMul(RSub(Whole(g.at[1]), OffsetX(g)), Whole(g.natural[1])), VisibleWidth(g)),
      RDiv(RMul(RSub(Whole(g.at[2]), OffsetY(g)), Whole(g.natural[1])), VisibleWidth(g))>>

\* n is the whole number nearest to a, the upper one of two.
NearestWhole(n, a) ==
    /\ RLeq(RSub(Whole(n), <<1, 2>>), a)
    /\ RLess(a, RAdd(Whole(n), <<1, 2>>))

\* C21 as stated: a click on the visible image stores the click minus the
\* letterbox offset scaled by naturalWidth / visibleWidth on both axes.
C21_Original ==
    [][(HotspotMouseDown /\ OnVisibleImage(click'))
          => /\ Whole(editHotspot'[1]) = ScaledClick(click')[1]
             /\ Whole(editHotspot'[2]) = ScaledClick(click')[2]]_vars

\* C21: a click on the visible image stores the click minus the letterbox offset
\* scaled by naturalWidth / visibleWidth on both axes and rounded to the nearest
\* whole pixel (halves upwards), the image filling the width of the rect with
\* bars above and below when its aspect ratio exceeds that of the rect and the
\* height with bars left and right otherwise; for natural 1000 x 500 rendered in
\* 400 x 400 a click at (200, 150) stores (500, 125).
C21_HotspotMapsRounded ==
    [][(HotspotMouseDown /\ OnVisibleImage(click'))
          => /\ NearestWhole(editHotspot'[1], ScaledClick(click')[1])
             /\ NearestWhole(editHotspot'[2], ScaledClick(click')[2])
             /\ (click' = Geometry(<<1000, 500>>, <<400, 400>>, <<200, 150>>)
                    => editHotspot' = <<500, 125>>)]_vars

\* The example click has just been mapped.
C21_Witness ==
    /\ last.name = "mouseDown"
    /\ click = Geometry(<<1000, 500>>, <<400, 400>>, <<200, 150>>)
    /\ editHotspot = <<500, 125>>

\* The click lies in the bars of an img rect with a size.
InBars(g) == g.rendered[1] > 0 /\ g.rendered[2] > 0 /\ ~OnVisibleImage(g)

\* C22: a hotspot click in the letterbox bars leaves editHotspot and
\* displayHotspot as they were, raises nothing and changes nothing else of the
\* session and of the viewport.
C22_BarClickIgnored ==
    [][(HotspotMouseDown /\ InBars(click'))
          => /\ UNCHANGED <<editHotspot, displayHotspot>>
             /\ last'.raised = "none"
             /\ UNCHANGED <<imageList, currentImageIndex, prompt, isLoading,
                            globalLoadingMessage, error, op, pending>>
             /\ UNCHANGED <<activeTab, interactionMode, isComparing, isSliderDragging,
                            sliderPosition, scale, translate, isPanning, panStart>>]_vars

\* A click in the bars has just been ignored while a hotspot was set.
C22_Witness ==
    /\ last.name = "mouseDown"
    /\ InBars(click)
    /\ editHotspot # NoHotspot /\ displayHotspot # NoHotspot

\* sliderPosition lies in [0, 100].
SliderInRange == RLeq(Whole(0), sliderPosition) /\ RLeq(sliderPosition, Whole(100))

\* C23: in every reachable state sliderPosition lies in [0, 100], wherever the
\* pointer or the finger is during a slider drag, on or off the image container,
\* and a click on the compare button stores 50.
C23_SliderClamped ==
    /\ []SliderInRange
    /\ [][last'.name = "compare" => sliderPosition' = <<50, 1>>]_vars

\* A move of the pointer to the left of the container has just been cut off at 0.
C23_Witness == last.name = "sliderMove" /\ isSliderDragging /\ sliderPosition = <<0, 1>>

\* The translate of the mouse-down that started the drag plus the displacement
\* of the pointer p since then.
PannedTo(p) ==
    <<RAdd(down.translate[1], RSub(p[1], down.at[1])),
      RAdd(down.translate[2], RSub(p[2], down.at[2]))>>

NamedAtUpload(rec) ==
    /\ rec.id = FileId(rec.history[1])
    /\ rec.name = FileName(rec.history[1])

\* C25: every record carries the id and the name it was given at upload, and no
\* step other than an upload or Upload New (which replace the list) changes the
\* id or the name at any index: not an append, undo, redo, reset, processing
\* mark or error record.
C25_IdAndNameStable ==
    /\ [](\A k \in DOMAIN imageList : NamedAtUpload(imageList[k]))
    /\ [][last'.name \notin ListEvents =>
             /\ DOMAIN imageList' = DOMAIN imageList
             /\ \A k \in DOMAIN imageList :
                   /\ imageList'[k].id = imageList[k].id
                   /\ imageList'[k].name = imageList[k].name]_vars

\* A record that has been edited and whose batch call has then failed.
C25_Witness ==
    /\ last.name = "processImage_err"
    /\ InRange(imageList, last.index)
    /\ Len(At(imageList, last.index).history) > 1
    /\ At(imageList, last.index).error # Null
    /\ NamedAtUpload(At(imageList, last.index))

\* The events that end the processing of one record of a batch.
ItemEndEvents == {"processImage_ok", "processImage_err"}

\* The message shows k of total.
Reports(message, k, total) ==
    /\ message # NoMessage
    /\ message[2] = k
    /\ message[3] = total

\* C26 as stated: once the k-th record of a batch over N records has finished, the
\* reported progress is (k, N).
C26_Original ==
    [][last'.name \in ItemEndEvents =>
          Reports(globalLoadingMessage', last'.index + 1, Len(op.snapshot))]_vars

\* C26 amended: the progress is reported before each record, not after it: while
\* the k-th record of a batch over N records is in flight, and during the pause
\* that follows it, the message shows (k, N), N being the length of the list at
\* the click; the step in which the last record finishes clears the message, so
\* (N, N) is never shown after the N-th record has finished.
C26_ProgressReportedBeforeRecord ==
    /\ [](op.kind \in BatchKinds /\ op.pc \in {"call", "pause"} =>
             /\ globalLoadingMessage =
                    <<MessageText(op.kind), op.i + 1, Len(op.snapshot)>>
             /\ Len(op.snapshot) = Len(imageList))
    /\ [][last'.name \in ItemEndEvents =>
             IF last'.index < Len(op.snapshot) - 1
             THEN Reports(globalLoadingMessage', last'.index + 1, Len(op.snapshot))
             ELSE globalLoadingMessage' = NoMessage]_vars

\* The second record of a batch is in flight after the pause: the message shows
\* 2 of N although one record has finished.
C26_Witness ==
    /\ last.name = "pauseElapsed"
    /\ op.pc = "call"
    /\ op.i = 1
    /\ Reports(globalLoadingMessage, 2, Len(imageList))

\* The step sends the external call of a batch for the record at op'.i.
BatchCallStarts == op'.kind \in BatchKinds /\ op'.pc = "call" /\ op.pc # "call"

\* C27: in a batch over N records the pause is taken after each record but the
\* last, and there only: a record that is not the last ends in the pause, the last
\* one ends the batch at once; no call is in flight during a pause; the call for
\* record i+1 is sent by the end of the pause that follows record i, and the first
\* call by the click. So a batch has N-1 pauses.
C27_PauseBetweenRecordsOnly ==
    /\ [](op.pc = "pause" =>
             /\ op.kind \in BatchKinds
             /\ pending = {}
             /\ isLoading
             /\ op.i < Len(op.snapshot) - 1)
    /\ [][last'.name \in ItemEndEvents =>
             IF last'.index < Len(op.snapshot) - 1
             THEN op'.pc = "pause" /\ op'.i = last'.index
             ELSE op'.pc = "idle" /\ ~isLoading']_vars
    /\ [][BatchCallStarts =>
             IF op'.i = 0
             THEN last'.name \in BatchKinds /\ op.pc = "idle"
             ELSE /\ last'.name = "pauseElapsed"
                  /\ op.pc = "pause"
                  /\ op'.i = op.i + 1]_vars

\* The pause after the first record of a batch is running.
C27_Witness ==
    /\ last.name \in ItemEndEvents
    /\ op.pc = "pause"
    /\ op.i = 0
    /\ pending = {}

\* An edit or a batch has been dispatched and has not ended.
Dispatched == op.pc # "idle" \/ isLoading

\* The session is at rest.
NotLoading == ~isLoading /\ globalLoadingMessage = NoMessage

\* C28: when every external call settles, every dispatched single edit and every
\* batch ends: eventually isLoading is false and globalLoadingMessage is null,
\* whether the calls resolve or reject.
C28_DispatchedTerminates == Dispatched ~> (NotLoading /\ op.pc = "idle")

\* A batch whose last call failed has ended.
C28_Witness ==
    /\ last.name = "processImage_err"
    /\ last.index = Len(imageList) - 1
    /\ Len(imageList) > 1
    /\ op.pc = "idle"
    /\ NotLoading

\* The two records have the same history and the same cursor.
SameVersions(a, b) == a.history = b.history /\ a.historyIndex = b.historyIndex

\* The file a commit has just appended to the record.
Committed(rec) == rec.history[Len(rec.history)]

\* C29: whichever commit stores a result, the batch one (processImage) or the
\* single one (addImageToHistory), the other one, given the same record and the
\* same file, yields the same history and historyIndex: the history up to the
\* cursor, then the new file, the cursor on it.  A redo branch is dropped by both,
\* and a record at index 0 keeps only its original before the new file.
C29_CommitsAgree ==
    [][(last'.name \in CommitEvents /\ InRange(imageList, last'.index)) =>
          LET i == last'.index
              old == At(imageList, i)
              new == At(imageList', i)
              file == Committed(new)
          IN  /\ SameVersions(new, At(addImageToHistory(imageList, file, i), i))
              /\ SameVersions(new, At(processImageCommit(imageList, file, i), i))
              /\ new.history = Append(SubSeq(old.history, 1, old.historyIndex + 1), file)
              /\ new.historyIndex = Len(new.history) - 1
              /\ file \notin Range(old.history)]_vars

\* A batch has committed to a record that had been undone to its original: the
\* undone version 1 is gone and version 2 follows the original.
C29_Witness ==
    /\ last.name = "processImage_ok"
    /\ InRange(imageList, last.index)
    /\ LET rec == At(imageList, last.index)
       IN  /\ rec.history = <<<<rec.id, 0>>, <<rec.id, 2>>>>
           /\ rec.historyIndex = 1

\* The fields of the session as they are before the first upload.
EmptySession ==
    /\ imageList = <<>>
    /\ currentImageIndex = 0
    /\ error = Null
    /\ prompt = ""
    /\ editHotspot = NoHotspot
    /\ displayHotspot = NoHotspot
    /\ ~isComparing
    /\ globalLoadingMessage = NoMessage
    /\ scale = InitialScale
    /\ translate = InitialTranslate

\* C30: a click on Upload New leaves no images, active index 0, no global error,
\* an empty prompt, no edit and no display hotspot, compare off, no loading
\* message, scale 1 and translate (0, 0); and no such click happens while
\* isLoading is true.
C30_UploadNewEmptiesSession ==
    /\ [][last'.name = "uploadNew" => EmptySession' /\ ~isLoading /\ ~isLoading']_vars
    /\ [](isLoading => ~ENABLED ClickUploadNew)

\* Upload New has been clicked in a session that had edits and a changed view.
C30_Witness ==
    /\ last.name = "uploadNew"
    /\ EmptySession
    /\ edits > 0
    /\ zooms > 0

\* The positions in the log of the entries of one kind.
Entries(kind) == {k \in DOMAIN retry.log : retry.log[k][1] = kind}

\* The waits of the run, in order.
Waits == LET picked == SelectSeq(retry.log, LAMBDA entry : entry[1] = "wait")
         IN  [k \in DOMAIN picked |-> picked[k][2]]

C32_BlockedNotRetried ==
    \A k \in Entries("err") :
        retry.log[k][2].message = BlockedMessage =>
            /\ k = Len(retry.log)
            /\ retry.pc = "thrown"
            /\ retry.outcome = retry.log[k][2]

\* The first of three attempts was blocked and the run has thrown.
C32_Witness ==
    /\ retry.pc = "thrown"
    /\ retry.retries = DefaultRetries
    /\ retry.outcome.message = BlockedMessage
    /\ retry.outcome.attempt = 1
    /\ Len(retry.log) = 2

\* 2^n
RECURSIVE Pow2(_)
Pow2(n) == IF n = 0 THEN 1 ELSE 2 * Pow2(n - 1)

\* Every attempt of the run failed with an error that is not blocked.
AllAttemptsFailed ==
    /\ retry.pc = "thrown"
    /\ Entries("call") # {}
    /\ \A k \in Entries("err") : retry.log[k][2].message # BlockedMessage

\* The run throws the error of its last attempt, and its k-th wait is
\* initialDelay * 2^(k-1).
ThrowsLastWithBackoff ==
    /\ retry.outcome.attempt = Cardinality(Entries("call"))
    /\ retry.outcome = retry.lastError
    /\ \A k \in DOMAIN Waits : Waits[k] = retry.initialDelay * Pow2(k - 1)

\* C33: when every attempt fails with a non-blocked error, withRetry throws the
\* error of the last attempt, the wait after the k-th failed attempt is
\* initialDelay * 2^(k-1), and each wait is followed by another attempt.
C33_BackoffBetweenAttempts ==
    AllAttemptsFailed =>
        /\ ThrowsLastWithBackoff
        /\ \A k \in Entries("wait") :
              k < Len(retry.log) /\ retry.log[k + 1][1] = "call"

\* C34: in every reachable state with a non-empty list, currentImageIndex is an
\* index of the list, whatever uploads, Upload New, selections, arrow keys and
\* edits came before; ArrowRight moves to the next index and from the last to 0,
\* ArrowLeft to the previous index and from 0 to the last; and with a single
\* image the arrow keys do nothing.
C34_ActiveIndexInRange ==
    /\ [](Len(imageList) > 0 =>
             currentImageIndex >= 0 /\ currentImageIndex <= Len(imageList) - 1)
    /\ [](Len(imageList) <= 1 => ~ENABLED KeyArrow)
    /\ [][last'.name = "ArrowRight" =>
             /\ Len(imageList) > 1
             /\ currentImageIndex' = IF currentImageIndex = Len(imageList) - 1 THEN 0
                                     ELSE currentImageIndex + 1]_vars
    /\ [][last'.name = "ArrowLeft" =>
             /\ Len(imageList) > 1
             /\ currentImageIndex' = IF currentImageIndex = 0 THEN Len(imageList) - 1
                                     ELSE currentImageIndex - 1]_vars

\* After an edit, ArrowLeft on the first record has wrapped around to the last.
C34_Witness ==
    /\ last.name = "ArrowLeft"
    /\ Len(imageList) >= 2
    /\ currentImageIndex = Len(imageList) - 1
    /\ edits > 0

\* The positions of the records that are being processed.
Processing == {k \in DOMAIN imageList : imageList[k].isProcessing}

\* C35: in every reachable state at most one record has isProcessing = true, a
\* record with isProcessing = true implies isLoading = true, and with isLoading =
\* false every record has isProcessing = false.
C35_OneProcessingWhileLoading ==
    /\ Cardinality(Processing) <= 1
    /\ Processing # {} => isLoading
    /\ ~isLoading => \A k \in DOMAIN imageList : ~imageList[k].isProcessing

\* The second record of a batch is being processed, the first no longer.
C35_Witness ==
    /\ isLoading
    /\ op.pc = "call"
    /\ op.i = 1
    /\ Processing = {2}

\* The current version of a record: history[historyIndex].
CurrentVersion(rec) == At(rec.history, rec.historyIndex)

\* C36: the file a batch sends to the service for record i is the current version
\* of record i in the state in which the call is issued, although it is read from
\* the list the handler captured at the click; and the version a batch commits is
\* appended right after the version that was sent.
C36_BatchSendsCurrentVersion ==
    /\ [][BatchCallStarts =>
             /\ pending' # pending
             /\ \A c \in pending' \ pending :
                   /\ c.index = op'.i
                   /\ InRange(imageList', c.index)
                   /\ c.file = CurrentVersion(At(imageList', c.index))
                   /\ c.file = CurrentVersion(At(imageList, c.index))]_vars
    /\ [][last'.name = "processImage_ok" =>
             \A c \in pending \ pending' :
                 LET old == At(imageList, c.index)
                     new == At(imageList', c.index)
                 IN  /\ c.index = last'.index
                     /\ c.file = CurrentVersion(old)
                     /\ new.historyIndex = old.historyIndex + 1
                     /\ At(new.history, new.historyIndex - 1) = c.file]_vars

\* The call for the second record of a batch is in flight with an edited version
\* of that record.
C36_Witness ==
    /\ op.kind \in BatchKinds
    /\ op.pc = "call"
    /\ op.i = 1
    /\ \E c \in pending : c.index = 1 /\ c.file[2] > 0

\* C37: in every reachable state in which compare mode is on, the active record
\* has an edited version on display: isComparing implies historyIndex > 0 of the
\* active record, also after an undo or a reset to the original while comparing.
C37_CompareOnlyWithEdit ==
    isComparing => HasCurrent /\ currentImageState.historyIndex > 0

\* The step puts another file on display: another version of the active record,
\* or another record.
DisplayedVersionChanges ==
    /\ HasCurrent
    /\ InRange(imageList', currentImageIndex')
    /\ CurrentVersion(At(imageList', currentImageIndex')) # currentImage

\* C38: whenever the version on display changes (an edit is appended, or undo,
\* redo or reset moves the cursor) or another image becomes active, editHotspot
\* and displayHotspot are cleared.
C38_HotspotClearedOnVersionChange ==
    [][DisplayedVersionChanges =>
          editHotspot' = NoHotspot /\ displayHotspot' = NoHotspot]_vars

\* C39: on every record of every reachable list, when undo is allowed the undo
\* allows a redo and the redo gives back the record as it was, history and
\* historyIndex; and when redo is allowed the redo allows an undo and the undo
\* gives back the record as it was.
C39_UndoRedoInverse ==
    \A i \in Indices(imageList) :
        LET rec == At(imageList, i)
            undone == At(undoList(imageList, i), i)
            redone == At(redoList(imageList, i), i)
        IN  /\ canUndoRec(rec) =>
                  /\ canRedoRec(undone)
                  /\ SameVersions(At(redoList(undoList(imageList, i), i), i), rec)
                  /\ redoList(undoList(imageList, i), i) = imageList
            /\ canRedoRec(rec) =>
                  /\ canUndoRec(redone)
                  /\ SameVersions(At(undoList(redoList(imageList, i), i), i), rec)
                  /\ undoList(redoList(imageList, i), i) = imageList

\* An undo has left the active record in the middle of its history, where both
\* undo and redo are allowed.
C39_Witness ==
    /\ last.name = "undo"
    /\ canUndo
    /\ canRedo
    /\ Len(currentImageState.history) = 3

\* The point lies within an image of the given natural size, borders included.
WithinNatural(point, natural) ==
    /\ 0 <= point[1] /\ point[1] <= natural[1]
    /\ 0 <= point[2] /\ point[2] <= natural[2]

\* C40: every mouse-down on the hotspot branch that lies on the visible image, or
\* that changes editHotspot, leaves an editHotspot with 0 <= x <= naturalWidth
\* and 0 <= y <= naturalHeight, for every natural size, rect and click position.
C40_HotspotWithinOriginal ==
    [][(HotspotMouseDown /\ (OnVisibleImage(click') \/ editHotspot' # editHotspot))
          => /\ editHotspot' # NoHotspot
             /\ WithinNatural(editHotspot', click'.natural)]_vars

\* A click on the lower right corner of the visible image has stored the lower
\* right corner of the original.
C40_Witness ==
    /\ last.name = "mouseDown"
    /\ click = Geometry(<<1000, 500>>, <<400, 400>>, <<400, 300>>)
    /\ editHotspot = <<1000, 500>>

====
